---- MODULE Spec2Model ----
\* The per-connection session orchestrator of secretary.fit: the WebSocket
\* handler (handleConnection and the functions it dispatches to), the agent
\* service (services/claude), the fast-acknowledgment service (services/groq),
\* the transcription service (services/whisper) and the synthesis service
\* (services/tts), as a state machine whose steps are the stretches of code
\* that run between two suspension points (await) of the Node.js event loop.
\*
\* Strings the code inspects (utterances, user ids, file names, paths) are
\* sequences of one-character strings; strings it only passes on are TLA+ strings.
EXTENDS Integers, Sequences, FiniteSets, TLC

VARIABLES
  userSessions,         \* userSessions of the WebSocket handler: connection -> session (or NoSession)
  conversationHistory,  \* GroqService.conversationHistory (one per process)
  handlers,             \* the invocations of the 'message' listener that have suspended
  sent,                 \* per connection, what ws.send has written, in order
  fs,                   \* the filesystem below process.cwd()
  transcribeCalls,      \* every call of whisperService.transcribe, in order
  recording,            \* per connection: is a recording in progress (between audio_start
                        \* and audio_end), its frames so far, the type of the last frame
                        \* dispatched on it and that frame's number
  inbound,              \* number of inbound frames dispatched so far
  budget,               \* number of steps the behaviour may still take
  userMessage,          \* the argument of the classifier call under test
  verdict,              \* what that call returned
  server,               \* the server process: does it accept connections, has SIGTERM
                        \* arrived, has it exited
  client                \* the browser: the App component with its useWebSocket hook, the
                        \* socket wsRef points to, localStorage

vars == <<userSessions, conversationHistory, handlers, sent, fs, transcribeCalls,
          recording, inbound, budget, userMessage, verdict, server, client>>

\* ---------------------------------------------------------------- bounds
\* Inbound frames dispatched in one behaviour of the turn specification.
MaxFrames == 2
\* Steps of one behaviour of the turn specification.
MaxSteps == 9
\* Non-terminal messages the agent SDK yields in one invocation.
MaxEvents == 1
\* Inbound frames and steps of one behaviour of the audio specification.
MaxAudioFrames == 6
MaxAudioSteps == 8
\* Inbound frames and steps of one behaviour of the fetch specification.
MaxFetchFrames == 3
MaxFetchSteps == 8
\* Length of the enumerated classifier inputs.
MaxLen == 3
\* Inbound frames of one behaviour of the dispatch specification.
MaxDispatchFrames == 4
\* Inbound frames and steps of one behaviour of the reconnect specification.
MaxReconnectFrames == 3
MaxReconnectSteps == 11
\* Inbound frames and steps of one behaviour of the two-client specification.
MaxSharedFrames == 3
MaxSharedSteps == 7
MaxControlFrames == 3
MaxControlSteps == 7
\* Steps of one behaviour of the voice specification.
MaxVoiceSteps == 6

MaxClientSteps == 7
MaxIdentityFrames == 4
MaxIdentitySteps == 12
MaxLifecycleFrames == 1
MaxUtteranceFrames == 4
MaxUtteranceSteps == 8
MaxLifecycleSteps == 9
MaxHistoryFrames == 6
MaxHistorySteps == 19

None == "none"

\* ---------------------------------------------------------------- strings
UpperCaseLetters ==
  <<"A","B","C","D","E","F","G","H","I","J","K","L","M","N","O","P","Q","R","S","T","U","V","W","X","Y","Z">>
LowerCaseLetters ==
  <<"a","b","c","d","e","f","g","h","i","j","k","l","m","n","o","p","q","r","s","t","u","v","w","x","y","z">>

\* String.prototype.toLowerCase, one character.
toLowerCaseChar(ch) ==
  IF \E i \in 1..Len(UpperCaseLetters) : UpperCaseLetters[i] = ch
  THEN LowerCaseLetters[CHOOSE i \in 1..Len(UpperCaseLetters) : UpperCaseLetters[i] = ch]
  ELSE ch

\* String.prototype.toLowerCase.
toLowerCase(s) == [i \in 1..Len(s) |-> toLowerCaseChar(s[i])]

\* String.prototype.startsWith(prefix).
startsWith(s, prefix) ==
  /\ Len(prefix) <= Len(s)
  /\ SubSeq(s, 1, Len(prefix)) = prefix

\* String.prototype.includes(k): k occurs at some offset of s.
includes(s, k) ==
  \E off \in 0..(Len(s) - Len(k)) : SubSeq(s, off + 1, off + Len(k)) = k

\* ---------------------------------------------------------------- classifier
agentKeywords ==
  << <<"c","r","e","a","t","e">>,
     <<"m","a","k","e">>,
     <<"w","r","i","t","e">>,
     <<"g","e","n","e","r","a","t","e">>,
     <<"f","i","l","e">>,
     <<"f","o","l","d","e","r">>,
     <<"d","i","r","e","c","t","o","r","y">>,
     <<"r","e","a","d">>,
     <<"o","p","e","n">>,
     <<"s","h","o","w">>,
     <<"d","i","s","p","l","a","y">>,
     <<"e","d","i","t">>,
     <<"m","o","d","i","f","y">>,
     <<"u","p","d","a","t","e">>,
     <<"c","h","a","n","g","e">>,
     <<"a","d","d">>,
     <<"a","p","p","e","n","d">>,
     <<"i","n","s","e","r","t">>,
     <<"p","u","t">>,
     <<"d","e","l","e","t","e">>,
     <<"r","e","m","o","v","e">>,
     <<"r","m">>,
     <<"r","u","n">>,
     <<"e","x","e","c","u","t","e">>,
     <<"b","a","s","h">>,
     <<"c","o","m","m","a","n","d">>,
     <<"s","e","a","r","c","h">>,
     <<"f","i","n","d">>,
     <<"g","r","e","p">>,
     <<"l","o","o","k"," ","f","o","r">>,
     <<"l","i","s","t">>,
     <<"l","s">>,
     <<"s","h","o","w"," ","f","i","l","e","s">>,
     <<"i","n","s","t","a","l","l">>,
     <<"n","p","m">>,
     <<"p","i","p">>,
     <<"g","i","t">>,
     <<"c","o","m","m","i","t">>,
     <<"p","u","s","h">>,
     <<"p","u","l","l">>,
     <<".","t","x","t">>,
     <<".","j","s">>,
     <<".","p","y">>,
     <<".","j","s","o","n">>,
     <<".","m","d">> >>

\* A classifier that forgets to lower-case the utterance.
needsAgentCaseSensitive(message) ==
  \E k \in 1..Len(agentKeywords) : includes(message, agentKeywords[k])

\* needsAgent of the WebSocket handler.
needsAgent(message) ==
  LET lowerMessage == toLowerCase(message)
  IN  \E k \in 1..Len(agentKeywords) : includes(lowerMessage, agentKeywords[k])

\* Utterances named by the specification and its tests.
StrHello == <<"h","e","l","l","o">>
StrDeleteTestTxt == <<"d","e","l","e","t","e"," ","t","e","s","t",".","t","x","t">>
StrCreateAFileCap == <<"C","r","e","a","t","e"," ","a"," ","f","i","l","e">>
StrCreateAFile == <<"c","r","e","a","t","e"," ","a"," ","f","i","l","e">>
StrWhatIs == <<"w","h","a","t"," ","i","s"," ","2","+","2">>

ClassifierAlphabet == {"r", "m", "R", "M", "x"}

ClassifierInputs ==
  UNION {[1..n -> ClassifierAlphabet] : n \in 0..MaxLen}
    \cup {StrHello, StrDeleteTestTxt, StrCreateAFileCap, StrCreateAFile, StrWhatIs}

\* ---------------------------------------------------------------- paths
\* String.prototype.split(sep), sep one character.
RECURSIVE split(_, _)
split(s, sep) ==
  IF \A i \in 1..Len(s) : s[i] # sep
  THEN <<s>>
  ELSE LET i == CHOOSE k \in 1..Len(s) : s[k] = sep /\ \A j \in 1..(k - 1) : s[j] # sep
       IN  <<SubSeq(s, 1, i - 1)>> \o split(SubSeq(s, i + 1, Len(s)), sep)

\* path.normalize on the segments of an absolute POSIX path: "" and "." vanish,
\* ".." removes the segment before it and stays at the root.
RECURSIVE normalizeSegments(_, _)
normalizeSegments(segs, stack) ==
  IF segs = <<>>
  THEN stack
  ELSE LET x == Head(segs)
       IN  normalizeSegments(Tail(segs),
             IF x = <<>> \/ x = <<".">> THEN stack
             ELSE IF x = <<".", ".">>
                  THEN (IF stack = <<>> THEN stack ELSE SubSeq(stack, 1, Len(stack) - 1))
                  ELSE Append(stack, x))

\* The string of an absolute path given by its segments.
RECURSIVE toPath(_)
toPath(segs) ==
  IF segs = <<>> THEN <<"/">>
  ELSE IF Len(segs) = 1 THEN <<"/">> \o segs[1]
  ELSE toPath(SubSeq(segs, 1, Len(segs) - 1)) \o <<"/">> \o segs[Len(segs)]

segmentsOf(p) == normalizeSegments(split(p, "/"), <<>>)

\* path.join(a, b) for an absolute a: concatenate with a separator, then normalize.
pathJoin(a, b) == toPath(segmentsOf(a \o <<"/">> \o b))

\* process.cwd() of the server.
Cwd == <<"/","s","r","v">>
StrWorkspace == <<"w","o","r","k","s","p","a","c","e">>
StrUserDash == <<"u","s","e","r","-">>

\* path.join(process.cwd(), 'workspace')
workspaceRoot == pathJoin(Cwd, StrWorkspace)

\* path.join(workspaceRoot, `user-${userId}`)
userWorkspaceOf(userId) == pathJoin(workspaceRoot, StrUserDash \o userId)

\* ---------------------------------------------------------------- filesystem
\* A filesystem is a set of nodes [path, kind, data]: kind is "dir", "file" or
\* "link"; data is a file's content or a link's (absolute) target.
fsHas(files, p) == \E n \in files : n.path = p
fsNode(files, p) == CHOOSE n \in files : n.path = p

\* fs.realpath: resolve every symbolic link on the way; [ok |-> FALSE] is a rejection
\* (ENOENT, ENOTDIR). Link targets of the model are never links themselves.
RECURSIVE resolveFrom(_, _, _)
resolveFrom(files, cur, rest) ==
  IF rest = <<>>
  THEN [ok |-> TRUE, path |-> toPath(cur)]
  ELSE LET p == toPath(Append(cur, Head(rest)))
       IN  IF ~fsHas(files, p) THEN [ok |-> FALSE, path |-> <<>>]
           ELSE IF fsNode(files, p).kind = "link"
                THEN resolveFrom(files, <<>>, segmentsOf(fsNode(files, p).data) \o Tail(rest))
           ELSE IF fsNode(files, p).kind = "file" /\ Tail(rest) # <<>>
                THEN [ok |-> FALSE, path |-> <<>>]
           ELSE resolveFrom(files, Append(cur, Head(rest)), Tail(rest))

realpath(files, p) == resolveFrom(files, <<>>, segmentsOf(p))

\* fs.readFile(p, 'utf-8'): follows links; rejects unless p names a regular file.
readFile(files, p) ==
  LET r == realpath(files, p)
  IN  IF r.ok /\ fsNode(files, r.path).kind = "file"
      THEN [ok |-> TRUE, content |-> fsNode(files, r.path).data]
      ELSE [ok |-> FALSE, content |-> <<>>]

\* fs.mkdir(p, {recursive: true}): p and every missing ancestor become directories.
mkdirRecursive(files, p) ==
  files \cup { [path |-> toPath(SubSeq(segmentsOf(p), 1, n)), kind |-> "dir", data |-> <<>>] :
               n \in { k \in 1..Len(segmentsOf(p)) :
                       ~fsHas(files, toPath(SubSeq(segmentsOf(p), 1, k))) } }

\* A file outside every workspace.
EnvFilePath == pathJoin(Cwd, <<".","e","n","v">>)
StrSecret == <<"k","e","y">>

\* The disk when the server starts: the constructor of ClaudeAgentService has
\* created the workspace root (initWorkspace); the deployment's .env lies beside it.
InitialFs ==
  mkdirRecursive({[path |-> <<"/">>, kind |-> "dir", data |-> <<>>]}, workspaceRoot)
    \cup {[path |-> EnvFilePath, kind |-> "file", data |-> StrSecret]}

\* ---------------------------------------------------------------- sessions
Conns == {"c1", "c2"}

\* randomUUID(): a fresh identifier per connection.
tempUserId(c) == IF c = "c1" THEN <<"t","m","p","1">> ELSE <<"t","m","p","2">>

\* No entry in userSessions.
NoSession == [connected |-> FALSE, userId |-> <<>>, sessionId |-> None, audioChunks |-> <<>>]

\* userSessions.set(ws, { userId: tempUserId, audioChunks: [] })
newSession(c) ==
  [connected |-> TRUE, userId |-> tempUserId(c), sessionId |-> None, audioChunks |-> <<>>]

\* Buffer.concat(chunks)
RECURSIVE bufferConcat(_)
bufferConcat(chunks) ==
  IF chunks = <<>> THEN <<>> ELSE Head(chunks) \o bufferConcat(Tail(chunks))

\* ---------------------------------------------------------------- client events
\* What ws.send writes: type and content as in ServerMessage; session_id is
\* data.session_id, seq the position of an agent event in its stream, error the
\* data.error of a file_content; h is the handler that sent it.
event(type, h, content, sid, seq, error) ==
  [type |-> type, h |-> h, content |-> content, session_id |-> sid, seq |-> seq, error |-> error]

plainEvent(type, h) == event(type, h, <<>>, None, 0, "")
errorEvent(h, text) == event("error", h, <<>>, None, 0, text)

send(c, ev) == [sent EXCEPT ![c] = Append(@, ev)]

\* ---------------------------------------------------------------- fast acknowledgment
SystemPrompt == <<"s","y","s","t","e","m">>
ReplyText == <<"O","n"," ","i","t">>
HistoryLimit == 11
HistoryKeep == 10

\* GroqService.generateResponse up to its await: push the user message, then keep
\* the system message and the last 10 entries.
historyPush(history, message) ==
  LET pushed == Append(history, [role |-> "user", content |-> message])
  IN  IF Len(pushed) > HistoryLimit
      THEN <<pushed[1]>> \o SubSeq(pushed, Len(pushed) - HistoryKeep + 1, Len(pushed))
      ELSE pushed

\* GroqService.generateResponse after its await: push the assistant message.
historyReply(history, reply) == Append(history, [role |-> "assistant", content |-> reply])

\* ---------------------------------------------------------------- handlers
\* One suspended invocation of the 'message' listener. pc names the await it is
\* suspended at; the other fields are its locals and what it has done so far:
\*   content     the utterance (handleUserMessage) or file name (handleFetchFile)
\*   buffer      the audioBuffer handed to whisperService.transcribe
\*   messages    the conversation history handed to chat.completions.create
\*   groq        outcome of groqService.generateResponse: none, pending, ok, failed
\*   stt         outcome of whisperService.transcribe: none, pending, ok, failed
\*   synth       calls of ttsService.synthesize so far
\*   fastTts     outcome of synthesize(groqResponse): none, pending, ok, failed
\*   agentTtsFailed  rejected calls of synthesize(agentMsg.content)
\*   classified  evaluations of needsAgent so far
\*   invoked     calls of claudeAgentService.executeAgent so far
\*   userId, resume   the arguments of that call
\*   sid         the session id the SDK gives the invocation
\*   yielded     what executeAgent has yielded, in order
\*   current     the agentMsg the loop body is working on (suspended in synthesize)
\*   filePath    the filePath local of handleFetchFile
\*   fetchUser   session.userId when handleFetchFile read it
\*   realOk, realPath   what fs.realpath(filePath) gave (realOk false: null)
newHandler(c, kind, pc, content) ==
  [conn |-> c, kind |-> kind, pc |-> pc, content |-> content, buffer |-> <<>>,
   groq |-> None, stt |-> None, synth |-> 0, fastTts |-> None, agentTtsFailed |-> 0,
   classified |-> 0, invoked |-> 0,
   userId |-> <<>>, resume |-> None, sid |-> None, yielded |-> <<>>,
   current |-> 0, filePath |-> <<>>, fetchUser |-> <<>>, realOk |-> FALSE, realPath |-> <<>>,
   messages |-> <<>>]

\* An agent event as executeAgent yields it ({type, content, data}).
agentEvent(type, content, sid) == [type |-> type, content |-> content, session_id |-> sid]

StrAgentInitialized == <<"A","g","e","n","t"," ","i","n","i","t">>
StrSystemEvent == <<"S","y","s","t","e","m"," ","e","v","e","n","t">>
StrTaskCompleted == <<"T","a","s","k"," ","c","o","m","p","l","e","t","e","d">>
StrDone == <<"d","o","n","e">>
StrAgentText == <<"o","k">>
StrAgentFailure == <<"b","o","o","m">>

\* The messages the agent SDK can produce (SDKMessage), by the fields
\* processMessage reads: an assistant message with a text block, an assistant
\* message with tool use only, the system init, another system message, a
\* message of any other type, a successful result, an unsuccessful result.
SdkProgress ==
  { [type |-> "assistant", subtype |-> "", text |-> StrAgentText],
    [type |-> "assistant", subtype |-> "", text |-> <<>>],
    [type |-> "system", subtype |-> "init", text |-> <<>>],
    [type |-> "system", subtype |-> "compact_boundary", text |-> <<>>],
    [type |-> "user", subtype |-> "", text |-> <<>>] }
SdkResults ==
  { [type |-> "result", subtype |-> "success", text |-> StrDone],
    [type |-> "result", subtype |-> "error_max_turns", text |-> <<>>] }

\* A processMessage that turns every message it does not know into nothing useful
\* and mislabels system messages.
processMessageMislabel(message, sid) ==
  IF message.type = "assistant" THEN agentEvent("assistant", message.text, sid)
  ELSE IF message.type = "result"
       THEN agentEvent("result", IF message.subtype = "success" THEN message.text ELSE StrTaskCompleted, sid)
  ELSE agentEvent("result", <<>>, sid)

\* ClaudeAgentService.processMessage; sid is message.session_id.
processMessage(message, sid) ==
  IF message.type = "assistant" THEN agentEvent("assistant", message.text, sid)
  ELSE IF message.type = "result"
       THEN agentEvent("result", IF message.subtype = "success" THEN message.text ELSE StrTaskCompleted, sid)
  ELSE IF message.type = "system"
       THEN (IF message.subtype = "init"
             THEN agentEvent("system_init", StrAgentInitialized, sid)
             ELSE agentEvent("system", StrSystemEvent, sid))
  ELSE agentEvent("unknown", <<>>, sid)

\* The event executeAgent yields from its catch block (no data).
agentErrorEvent == agentEvent("error", StrAgentFailure, None)

\* ws.send({type: 'agent_' + agentMsg.type, content, data}) of the agent loop.
forward(h, ev, seq) == event("agent_" \o ev.type, h, ev.content, ev.session_id, seq, "")

\* A check of the user id that looks for the backslash only.
validUserIdBackslashOnly(userId) == ~includes(userId, <<"\\">>)

\* getUserWorkspace's check of the user id.
validUserId(userId) ==
  ~(includes(userId, <<".", ".">>) \/ includes(userId, <<"/">>) \/ includes(userId, <<"\\">>))

\* Session ids the SDK hands out: a fresh one per invocation.
FreshSessionIds == <<"s1", "s2", "s3", "s4", "s5", "s6", "s7", "s8", "s9", "s10", "s11", "s12">>

\* ---------------------------------------------------------------- inbound frames
\* A frame as the dispatcher sees it: json says whether JSON.parse accepts it;
\* type, content and userId are the fields of the parsed ClientMessage (an absent
\* field is the empty string); bytes is the payload of the frame (left out where
\* the dispatcher never touches it). logs says whether the console.log that
\* precedes the switch goes through: it reads message.type and calls
\* message.content?.substring, which throws a TypeError when the parsed value
\* is null or its content is neither absent nor a string.
textFrame(type, content, userId) ==
  [json |-> TRUE, logs |-> TRUE, type |-> type, content |-> content, userId |-> userId,
   bytes |-> <<>>]
binaryFrame(bytes) ==
  [json |-> FALSE, logs |-> FALSE, type |-> "", content |-> <<>>, userId |-> <<>>,
   bytes |-> bytes]
\* A frame that is JSON but not a ClientMessage the log line can print: null
\* (type ""), or an object of the given type whose content is, say, a number.
oddFrame(type, bytes) ==
  [json |-> TRUE, logs |-> FALSE, type |-> type, content |-> <<>>, userId |-> <<>>,
   bytes |-> bytes]

\* ---------------------------------------------------------------- the browser
\* The page before App has rendered: no component, no socket, no timer; what
\* stays from an earlier visit is the user id in localStorage (None: no entry).
\* The voice state is useVoiceState's initial 'idle'; nothing records
\* (isRecording, the MediaRecorder, getUserMedia calls pending, stopped
\* recorders whose last chunk is still to come), nothing plays (isPlaying,
\* playAudio calls still decoding), and no server event is on its way (feed).
NoPage(saved) ==
  [phase |-> "unloaded", readyState |-> "NONE", isConnected |-> FALSE, timer |-> FALSE,
   socket |-> 0, out |-> <<>>, userId |-> None, storage |-> saved, identified |-> {},
   voice |-> "idle", isRecording |-> FALSE, recorder |-> "none", asking |-> 0, tail |-> 0,
   isPlaying |-> FALSE, decoding |-> 0, feed |-> <<>>]

\* Every action takes one step of the behaviour's budget.
step == budget > 0 /\ budget' = budget - 1

\* A step of the server's event loop: the process is alive, and what the step
\* does is no signal handling and nothing in the browser.
tick == step /\ ~server.exited /\ UNCHANGED <<server, client>>

\* A test that lets the empty string through.
isTruthyOrEmpty(content) == Len(content) >= 0

\* if (message.content), if (transcription): a string is truthy unless it is empty.
isTruthy(content) == content # <<>>

\* ---------------------------------------------------------------- handleConnection
HandleConnection(c) ==
  /\ tick
  /\ server.accepting
  /\ ~userSessions[c].connected
  /\ userSessions' = [userSessions EXCEPT ![c] = newSession(c)]
  /\ sent' = send(c, plainEvent("system_init", 0))
  /\ UNCHANGED <<conversationHistory, handlers, fs, transcribeCalls, recording, inbound,
                 userMessage, verdict>>

\* ---------------------------------------------------------------- the turn, step by step
\* handleUserMessage from its start to the await inside generateResponse.
turnStarted(t, content) == [t EXCEPT !.content = content, !.groq = "pending", !.pc = "groq"]

\* generateResponse up to its await: the create call is given the history of the
\* service, which by then ends with the new user message.
withMessages(t, history) == [t EXCEPT !.messages = history]

\* A handler that goes on to synthesis although generateResponse was rejected.
groqSettledGoesOn(t, ok) ==
  [t EXCEPT !.groq = IF ok THEN "ok" ELSE "failed", !.synth = @ + 1, !.fastTts = "pending",
            !.pc = "tts"]

\* handleUserMessage when generateResponse settles: on success the reply is sent
\* and synthesize is called (suspending in it); on failure the catch block ends the turn.
groqSettled(t, ok) ==
  IF ok
  THEN [t EXCEPT !.groq = "ok", !.synth = @ + 1, !.fastTts = "pending", !.pc = "tts"]
  ELSE [t EXCEPT !.groq = "failed", !.pc = "done"]

\* What handleUserMessage sends when generateResponse settles.
groqEvents(h, ok) ==
  IF ok THEN <<event("groq_response", h, ReplyText, None, 0, "")>>
        ELSE <<errorEvent(h, "Failed to generate response")>>

\* A gate that runs the agent for every utterance.
agentGateAlways(t, session) ==
  [t EXCEPT !.classified = @ + 1, !.invoked = @ + 1,
            !.userId = session.userId, !.resume = session.sessionId,
            !.pc = IF validUserId(session.userId) THEN "mkdir" ELSE "done"]

\* handleUserMessage from the needsAgent test to the first await of executeAgent
\* (fs.mkdir in getUserWorkspace), or to the end of the turn: the classifier is
\* false, or getUserWorkspace throws and the catch block of handleUserMessage runs.
agentGate(t, session) ==
  IF needsAgent(t.content)
  THEN [t EXCEPT !.classified = @ + 1, !.invoked = @ + 1,
                 !.userId = session.userId, !.resume = session.sessionId,
                 !.pc = IF validUserId(session.userId) THEN "mkdir" ELSE "done"]
  ELSE [t EXCEPT !.classified = @ + 1, !.pc = "done"]

\* What the catch block of handleUserMessage sends when executeAgent throws
\* before its try block.
agentGateEvents(h, after) ==
  IF after.invoked > 0 /\ after.pc = "done"
  THEN <<errorEvent(h, "Failed to generate response")>>
  ELSE <<>>

\* A handler whose turn fails when the synthesis of the fast reply fails.
fastTtsSettledAborts(t, ok, session) ==
  IF ok THEN agentGate([t EXCEPT !.fastTts = "ok"], session)
        ELSE [t EXCEPT !.fastTts = "failed", !.pc = "done"]

\* handleUserMessage when synthesize(groqResponse) settles: the inner try/catch
\* swallows a rejection, and the turn goes on to the classifier either way.
fastTtsSettled(t, ok, session) ==
  agentGate([t EXCEPT !.fastTts = IF ok THEN "ok" ELSE "failed"], session)

ttsEvents(h, ok) == IF ok THEN <<plainEvent("tts_audio", h)>> ELSE <<>>

\* session.sessionId = agentMsg.data.session_id, when the event carries one.
storeSessionId(session, ev) ==
  IF ev.session_id # None THEN [session EXCEPT !.sessionId = ev.session_id] ELSE session

\* An agent loop that synthesizes speech for an assistant event without text too.
wantsSpeechForEmptyText(ev) == ev.type = "assistant"

\* The agent loop suspends in synthesize for an assistant event with text.
wantsSpeech(ev) == ev.type = "assistant" /\ ev.content # <<>>

\* The agent loop when synthesize(agentMsg.content) settles: back to the stream.
agentTtsSettled(t, ok) ==
  [t EXCEPT !.agentTtsFailed = IF ok THEN @ ELSE @ + 1, !.current = 0, !.pc = "agent"]

isTerminal(ev) == ev.type \in {"result", "error"}

sendAll(c, evs) == [sent EXCEPT ![c] = @ \o evs]

\* ---------------------------------------------------------------- the dispatcher
\* A handleAudioEnd whose transcriber takes an empty buffer like any other.
audioEndHandlerNoEmptyCheck(c, buffer) ==
  [newHandler(c, "audio_end", "transcribe", <<>>) EXCEPT !.buffer = buffer, !.stt = "pending"]

\* handleAudioEnd up to the await inside whisperService.transcribe: an empty buffer
\* makes transcribe throw at once, and the catch block runs in the same step.
audioEndHandler(c, buffer) ==
  IF buffer = <<>>
  THEN [newHandler(c, "audio_end", "done", <<>>) EXCEPT !.buffer = buffer, !.stt = "failed"]
  ELSE [newHandler(c, "audio_end", "transcribe", <<>>) EXCEPT !.buffer = buffer, !.stt = "pending"]

\* handleFetchFile up to its first await (fs.realpath).
fetchHandler(c, fileName, session) ==
  [newHandler(c, "fetch_file", "realpath", fileName) EXCEPT
     !.fetchUser = session.userId,
     !.filePath = pathJoin(userWorkspaceOf(session.userId), fileName)]

\* The 'message' listener of handleConnection, from the arrival of a frame to the
\* first await that suspends (or to its end).
OnMessage(c, frame) ==
  LET session == userSessions[c]
      h == Len(handlers) + 1
  IN
  /\ tick
  /\ session.connected
  /\ inbound' = inbound + 1
  /\ UNCHANGED <<fs, userMessage, verdict>>
  /\ CASE ~frame.json \/ ~frame.logs ->
            \* the inner catch: handleBinaryMessage
            /\ userSessions' = [userSessions EXCEPT ![c].audioChunks = Append(@, frame.bytes)]
            /\ recording' = [recording EXCEPT
                               ![c].last = IF frame.json THEN frame.type ELSE "binary",
                               ![c].at = inbound + 1,
                               ![c].frames = IF recording[c].on /\ ~frame.json
                                             THEN Append(@, frame.bytes) ELSE @]
            /\ UNCHANGED <<conversationHistory, handlers, sent, transcribeCalls>>
       [] frame.json /\ frame.logs /\ frame.type = "identify" ->
            /\ userSessions' = IF frame.userId # <<>>
                               THEN [userSessions EXCEPT ![c].userId = frame.userId]
                               ELSE userSessions
            /\ recording' = [recording EXCEPT ![c].last = frame.type, ![c].at = inbound + 1]
            /\ UNCHANGED <<conversationHistory, handlers, sent, transcribeCalls>>
       [] frame.json /\ frame.logs /\ frame.type = "fetch_file" ->
            /\ handlers' = IF frame.content # <<>>
                           THEN Append(handlers, fetchHandler(c, frame.content, session))
                           ELSE handlers
            /\ recording' = [recording EXCEPT ![c].last = frame.type, ![c].at = inbound + 1]
            /\ UNCHANGED <<userSessions, conversationHistory, sent, transcribeCalls>>
       [] frame.json /\ frame.logs /\ frame.type = "message" ->
            /\ handlers' = IF isTruthy(frame.content)
                           THEN Append(handlers,
                                  withMessages(
                                    turnStarted(newHandler(c, "message", "", <<>>), frame.content),
                                    historyPush(conversationHistory, frame.content)))
                           ELSE handlers
            /\ conversationHistory' = IF isTruthy(frame.content)
                                      THEN historyPush(conversationHistory, frame.content)
                                      ELSE conversationHistory
            /\ recording' = [recording EXCEPT ![c].last = frame.type, ![c].at = inbound + 1]
            /\ UNCHANGED <<userSessions, sent, transcribeCalls>>
       [] frame.json /\ frame.logs /\ frame.type = "audio_start" ->
            \* handleAudioStart
            /\ userSessions' = [userSessions EXCEPT ![c].audioChunks = <<>>]
            /\ recording' = [recording EXCEPT ![c] =
                               [on |-> TRUE, frames |-> <<>>, last |-> "audio_start", at |-> inbound + 1]]
            /\ UNCHANGED <<conversationHistory, handlers, sent, transcribeCalls>>
       [] frame.json /\ frame.logs /\ frame.type = "audio_end" ->
            LET audioBuffer == bufferConcat(session.audioChunks) IN
            /\ transcribeCalls' = Append(transcribeCalls,
                 [conn |-> c, h |-> h, buffer |-> audioBuffer,
                  bracketed |-> recording[c].on, window |-> recording[c].frames])
            /\ recording' = [recording EXCEPT ![c] =
                               [on |-> FALSE, frames |-> <<>>, last |-> "audio_end", at |-> inbound + 1]]
            /\ handlers' = Append(handlers, audioEndHandler(c, audioBuffer))
            /\ sent' = IF audioBuffer = <<>>
                       THEN send(c, errorEvent(h, "Failed to transcribe audio"))
                       ELSE sent
            /\ userSessions' = IF audioBuffer = <<>>
                               THEN [userSessions EXCEPT ![c].audioChunks = <<>>]
                               ELSE userSessions
            /\ UNCHANGED conversationHistory
       [] frame.json /\ frame.logs /\ frame.type = "ping" ->
            /\ sent' = send(c, plainEvent("pong", 0))
            /\ recording' = [recording EXCEPT ![c].last = frame.type, ![c].at = inbound + 1]
            /\ UNCHANGED <<userSessions, conversationHistory, handlers, transcribeCalls>>
       [] OTHER ->
            \* default: console.warn
            /\ recording' = [recording EXCEPT ![c].last = frame.type, ![c].at = inbound + 1]
            /\ UNCHANGED <<userSessions, conversationHistory, handlers, sent, transcribeCalls>>

\* ---------------------------------------------------------------- resumptions
\* whisperService.transcribe settles: text is the trimmed transcription.
TranscribeSettles(h, ok, text) ==
  LET t == handlers[h]
      c == t.conn
  IN
  /\ tick
  /\ t.pc = "transcribe"
  /\ userSessions' = [userSessions EXCEPT ![c].audioChunks = <<>>]
  /\ IF ok
     THEN /\ sent' = send(c, event("transcription", h, text, None, 0, ""))
          /\ IF isTruthy(text)
             THEN /\ handlers' = [handlers EXCEPT ![h] =
                                    withMessages(turnStarted([t EXCEPT !.stt = "ok"], text),
                                                 historyPush(conversationHistory, text))]
                  /\ conversationHistory' = historyPush(conversationHistory, text)
             ELSE /\ handlers' = [handlers EXCEPT ![h].stt = "ok", ![h].pc = "done"]
                  /\ UNCHANGED conversationHistory
     ELSE /\ sent' = send(c, errorEvent(h, "Failed to transcribe audio"))
          /\ handlers' = [handlers EXCEPT ![h].stt = "failed", ![h].pc = "done"]
          /\ UNCHANGED conversationHistory
  /\ UNCHANGED <<fs, transcribeCalls, recording, inbound, userMessage, verdict>>

\* client.chat.completions.create settles inside generateResponse.
GroqSettles(h, ok) ==
  LET t == handlers[h]
  IN
  /\ tick
  /\ t.pc = "groq"
  /\ conversationHistory' = IF ok THEN historyReply(conversationHistory, ReplyText)
                                  ELSE conversationHistory
  /\ handlers' = [handlers EXCEPT ![h] = groqSettled(t, ok)]
  /\ sent' = sendAll(t.conn, groqEvents(h, ok))
  /\ UNCHANGED <<userSessions, fs, transcribeCalls, recording, inbound, userMessage, verdict>>

\* ttsService.synthesize(groqResponse) settles.
FastTtsSettles(h, ok) ==
  LET t == handlers[h]
      after == fastTtsSettled(t, ok, userSessions[t.conn])
  IN
  /\ tick
  /\ t.pc = "tts"
  /\ handlers' = [handlers EXCEPT ![h] = after]
  /\ sent' = sendAll(t.conn, ttsEvents(h, ok) \o agentGateEvents(h, after))
  /\ UNCHANGED <<userSessions, conversationHistory, fs, transcribeCalls, recording, inbound,
                 userMessage, verdict>>

\* fs.mkdir of getUserWorkspace resolves (the workspace root is writable):
\* executeAgent calls query(), whose session is the resumed one or a fresh one,
\* and awaits its first message.
MkdirSettles(h, sid) ==
  LET t == handlers[h]
  IN
  /\ tick
  /\ t.pc = "mkdir"
  /\ sid \in {FreshSessionIds[h]} \cup ({t.resume} \ {None})
  /\ fs' = mkdirRecursive(fs, userWorkspaceOf(t.userId))
  /\ handlers' = [handlers EXCEPT ![h].pc = "agent", ![h].sid = sid]
  /\ UNCHANGED <<userSessions, conversationHistory, sent, transcribeCalls, recording, inbound,
                 userMessage, verdict>>

\* A loop that asks the stream for its next message while the synthesis of the
\* last one is still pending.
loopAsksForNextEagerly(t) == t.pc \in {"agent", "agent_tts"}

\* for await: the loop asks the generator for its next message when the body
\* has run to its end for the last one (or has not run yet).
loopAsksForNext(t) == t.pc = "agent"

\* The SDK stream produces a message: executeAgent yields processMessage(message),
\* the loop body forwards it, and either suspends in synthesize or stores the
\* session id and asks for the next message.
AgentYields(h, message) ==
  LET t == handlers[h]
      c == t.conn
      ev == processMessage(message, t.sid)
      n == Len(t.yielded) + 1
  IN
  /\ tick
  /\ loopAsksForNext(t)
  /\ message.type # "result" => Len(t.yielded) < MaxEvents
  /\ sent' = send(c, forward(h, ev, n))
  /\ IF wantsSpeech(ev)
     THEN /\ handlers' = [handlers EXCEPT ![h].yielded = Append(@, ev), ![h].current = n,
                                          ![h].synth = @ + 1, ![h].pc = "agent_tts"]
          /\ UNCHANGED userSessions
     ELSE /\ handlers' = [handlers EXCEPT ![h].yielded = Append(@, ev),
                                          ![h].pc = IF message.type = "result" THEN "drain" ELSE "agent"]
          /\ userSessions' = [userSessions EXCEPT ![c] = storeSessionId(@, ev)]
  /\ UNCHANGED <<conversationHistory, fs, transcribeCalls, recording, inbound, userMessage, verdict>>

\* ttsService.synthesize(agentMsg.content) settles: the loop body finishes.
AgentTtsSettles(h, ok) ==
  LET t == handlers[h]
      c == t.conn
  IN
  /\ tick
  /\ t.pc = "agent_tts"
  /\ sent' = sendAll(c, ttsEvents(h, ok))
  /\ handlers' = [handlers EXCEPT ![h] = agentTtsSettled(t, ok)]
  /\ userSessions' = [userSessions EXCEPT ![c] = storeSessionId(@, t.yielded[t.current])]
  /\ UNCHANGED <<conversationHistory, fs, transcribeCalls, recording, inbound, userMessage, verdict>>

\* The SDK stream throws: the catch block of executeAgent yields an error event,
\* the loop body forwards it, and the generator returns.
AgentThrows(h) ==
  LET t == handlers[h]
      n == Len(t.yielded) + 1
  IN
  /\ tick
  /\ t.pc = "agent"
  /\ sent' = send(t.conn, forward(h, agentErrorEvent, n))
  /\ handlers' = [handlers EXCEPT ![h].yielded = Append(@, agentErrorEvent), ![h].pc = "done"]
  /\ UNCHANGED <<userSessions, conversationHistory, fs, transcribeCalls, recording, inbound,
                 userMessage, verdict>>

\* The SDK stream ends after its result message: the loop and the turn end.
AgentEnds(h) ==
  /\ tick
  /\ handlers[h].pc = "drain"
  /\ handlers' = [handlers EXCEPT ![h].pc = "done"]
  /\ UNCHANGED <<userSessions, conversationHistory, sent, fs, transcribeCalls, recording, inbound,
                 userMessage, verdict>>

\* ---------------------------------------------------------------- handleFetchFile, resumed
\* The containment test of handleFetchFile on what fs.realpath gave.
insideWorkspace(real, userWorkspace) ==
  real.ok /\ startsWith(real.path, userWorkspace)

\* The file_content payload: content null is the empty content.
fileContent(h, content, error) == event("file_content", h, content, None, 0, error)

\* fs.realpath(filePath).catch(() => null) settles, then the containment test.
RealpathSettles(h) ==
  LET t == handlers[h]
      real == realpath(fs, t.filePath)
  IN
  /\ tick
  /\ t.pc = "realpath"
  /\ IF insideWorkspace(real, userWorkspaceOf(t.fetchUser))
     THEN /\ handlers' = [handlers EXCEPT ![h].pc = "readFile",
                                          ![h].realOk = real.ok, ![h].realPath = real.path]
          /\ UNCHANGED sent
     ELSE /\ handlers' = [handlers EXCEPT ![h].pc = "done",
                                          ![h].realOk = real.ok, ![h].realPath = real.path]
          /\ sent' = send(t.conn, fileContent(h, <<>>, "Invalid file path"))
  /\ UNCHANGED <<userSessions, conversationHistory, fs, transcribeCalls, recording, inbound,
                 userMessage, verdict>>

\* fs.readFile(filePath, 'utf-8') settles.
ReadFileSettles(h) ==
  LET t == handlers[h]
      read == readFile(fs, t.filePath)
  IN
  /\ tick
  /\ t.pc = "readFile"
  /\ handlers' = [handlers EXCEPT ![h].pc = "done"]
  /\ sent' = IF read.ok
             THEN send(t.conn, fileContent(h, read.content, ""))
             ELSE send(t.conn, fileContent(h, <<>>, "File not found"))
  /\ UNCHANGED <<userSessions, conversationHistory, fs, transcribeCalls, recording, inbound,
                 userMessage, verdict>>

\* ---------------------------------------------------------------- the agent's tools
StrNotesTxt == <<"n","o","t","e","s",".","t","x","t">>
StrLink == <<"l","i","n","k">>

\* What a tool call of an agent run leaves in its working directory: a file whose
\* content names the user the agent ran for (Write), or a symbolic link to the
\* deployment's .env (Bash: ln -s).
toolEffect(files, userWorkspace, userId, tool) ==
  IF tool = "Write"
  THEN files \cup {[path |-> pathJoin(userWorkspace, StrNotesTxt), kind |-> "file", data |-> userId]}
  ELSE files \cup {[path |-> pathJoin(userWorkspace, StrLink), kind |-> "link", data |-> EnvFilePath]}

toolTarget(userWorkspace, tool) ==
  pathJoin(userWorkspace, IF tool = "Write" THEN StrNotesTxt ELSE StrLink)

\* An agent run for the user of connection c, reduced to what it does to the
\* disk: getUserWorkspace creates the directory, query runs with cwd there and
\* one tool call writes.
AgentRunWrites(c, tool) ==
  LET session == userSessions[c]
      userWorkspace == userWorkspaceOf(session.userId)
  IN
  /\ tick
  /\ session.connected
  /\ validUserId(session.userId)
  /\ ~fsHas(fs, toolTarget(userWorkspace, tool))
  /\ fs' = toolEffect(mkdirRecursive(fs, userWorkspace), userWorkspace, session.userId, tool)
  /\ UNCHANGED <<userSessions, conversationHistory, handlers, sent, transcribeCalls, recording,
                 inbound, userMessage, verdict>>

\* ---------------------------------------------------------------- the connection ends
\* The socket of connection c closes: the 'close' listener logs, and that is
\* all; the handlers of the connection that are suspended stay as they are.
Disconnect(c) ==
  /\ tick
  /\ userSessions[c].connected
  /\ userSessions' = [userSessions EXCEPT ![c].connected = FALSE]
  /\ UNCHANGED <<conversationHistory, handlers, sent, fs, transcribeCalls, recording, inbound,
                 userMessage, verdict>>

\* The socket of connection c closes after its handlers have run to their end:
\* the session stays in the WeakMap with the socket that nothing refers to any
\* more. The name c then stands for the next socket the client opens
\* (handleConnection gives it a session of its own).
Close(c) ==
  /\ \A h \in DOMAIN handlers : handlers[h].conn = c => handlers[h].pc = "done"
  /\ Disconnect(c)

\* ---------------------------------------------------------------- the process ends
\* SIGTERM arrives: the handler calls wss.close(callback). The server takes no
\* new connection from then on; whether close() also terminates the sockets
\* that are open depends on the version of the ws library.
Sigterm(terminates) ==
  /\ step
  /\ ~server.closing /\ ~server.exited
  /\ server' = [server EXCEPT !.accepting = FALSE, !.closing = TRUE]
  /\ userSessions' = IF terminates
                     THEN [c \in Conns |-> [userSessions[c] EXCEPT !.connected = FALSE]]
                     ELSE userSessions
  /\ UNCHANGED <<conversationHistory, handlers, sent, fs, transcribeCalls, recording, inbound,
                 userMessage, verdict, client>>

\* The server has closed, which it has once no socket is open: the callback of
\* wss.close runs process.exit(0).
Exit ==
  /\ step
  /\ server.closing /\ ~server.exited
  /\ \A c \in Conns : ~userSessions[c].connected
  /\ server' = [server EXCEPT !.exited = TRUE]
  /\ UNCHANGED <<userSessions, conversationHistory, handlers, sent, fs, transcribeCalls,
                 recording, inbound, userMessage, verdict, client>>

\* ---------------------------------------------------------------- the turn specification
StrUserA == <<"a">>
StrUserAb == <<"a", "b">>
StrUserB == <<"b">>
StrBadUser == <<".", ".", "/", "b">>

\* The frames a client sends in the turn specification: identify with a traversing
\* user id, two typed utterances (one the classifier accepts), and a ping.
TurnFrames ==
  { textFrame("identify", <<>>, StrBadUser),
    textFrame("message", StrWhatIs, <<>>),
    textFrame("message", StrDeleteTestTxt, <<>>),
    textFrame("ping", <<>>, <<>>) }

\* The turn specification follows one connection.
TurnConns == {"c1"}

\* The server after start-up, with n steps to go.
InitWith(n) ==
  /\ userSessions = [c \in Conns |-> NoSession]
  /\ conversationHistory = <<[role |-> "system", content |-> SystemPrompt]>>
  /\ handlers = <<>>
  /\ sent = [c \in Conns |-> <<>>]
  /\ fs = InitialFs
  /\ transcribeCalls = <<>>
  /\ recording = [c \in Conns |-> [on |-> FALSE, frames |-> <<>>, last |-> "", at |-> 0]]
  /\ inbound = 0
  /\ budget = n
  /\ verdict = <<>>
  /\ server = [accepting |-> TRUE, closing |-> FALSE, exited |-> FALSE]
  /\ client = NoPage(None)

Init == InitWith(MaxSteps) /\ userMessage = <<>>

Next ==
  \/ \E c \in TurnConns : HandleConnection(c)
  \/ \E c \in TurnConns, frame \in TurnFrames : inbound < MaxFrames /\ OnMessage(c, frame)
  \/ \E h \in DOMAIN handlers, ok \in BOOLEAN : GroqSettles(h, ok)
  \/ \E h \in DOMAIN handlers, ok \in BOOLEAN : FastTtsSettles(h, ok)
  \/ \E h \in DOMAIN handlers :
       \E sid \in {FreshSessionIds[h], handlers[h].resume} : MkdirSettles(h, sid)
  \/ \E h \in DOMAIN handlers, message \in SdkProgress \cup SdkResults : AgentYields(h, message)
  \/ \E h \in DOMAIN handlers, ok \in BOOLEAN : AgentTtsSettles(h, ok)
  \/ \E h \in DOMAIN handlers : AgentThrows(h)
  \/ \E h \in DOMAIN handlers : AgentEnds(h)

Spec == Init /\ [][Next]_vars

\* ---------------------------------------------------------------- the audio specification
\* The n-th inbound frame, when it is binary: two bytes no other frame carries.
audioFrame(n) == binaryFrame(<<n, 100 + n>>)

\* The frames a client sends while it records: the two boundaries and audio.
AudioFrames(n) ==
  { textFrame("audio_start", <<>>, <<>>),
    textFrame("audio_end", <<>>, <<>>),
    audioFrame(n) }

\* What a transcription comes back as: nothing, or an utterance for the fast path.
Transcriptions == {<<>>, StrWhatIs}

AudioInit == InitWith(MaxAudioSteps) /\ userMessage = <<>>

AudioNext ==
  \/ \E c \in TurnConns : HandleConnection(c)
  \/ \E c \in TurnConns, frame \in AudioFrames(inbound + 1) :
       inbound < MaxAudioFrames /\ OnMessage(c, frame)
  \/ \E h \in DOMAIN handlers, ok \in BOOLEAN, text \in Transcriptions :
       TranscribeSettles(h, ok, text)
  \/ \E h \in DOMAIN handlers, ok \in BOOLEAN : GroqSettles(h, ok)
  \/ \E h \in DOMAIN handlers, ok \in BOOLEAN : FastTtsSettles(h, ok)

SpecAudio == AudioInit /\ [][AudioNext]_vars

\* ---------------------------------------------------------------- the fetch specification
StrOtherAbNotes ==
  <<".",".","/","u","s","e","r","-","a","b","/","n","o","t","e","s",".","t","x","t">>
StrOtherBNotes ==
  <<".",".","/","u","s","e","r","-","b","/","n","o","t","e","s",".","t","x","t">>

\* The users of the fetch specification.
FetchUsers == {StrUserA, StrUserAb, StrUserB}

\* Connection c1 is user a and asks for files: its own, the ones of the two other
\* users by a relative path, and a link its agent made. Connection c2 is one of
\* the other users.
FetchFrames(c) ==
  IF c = "c1"
  THEN { textFrame("identify", <<>>, StrUserA),
         textFrame("fetch_file", StrNotesTxt, <<>>),
         textFrame("fetch_file", StrOtherAbNotes, <<>>),
         textFrame("fetch_file", StrOtherBNotes, <<>>),
         textFrame("fetch_file", StrLink, <<>>) }
  ELSE { textFrame("identify", <<>>, StrUserAb),
         textFrame("identify", <<>>, StrUserB) }

AgentTools == {"Write", "Bash"}

FetchInit == InitWith(MaxFetchSteps) /\ userMessage = <<>>

FetchNext ==
  \/ \E c \in Conns : HandleConnection(c)
  \/ \E c \in Conns : \E frame \in FetchFrames(c) :
       inbound < MaxFetchFrames /\ OnMessage(c, frame)
  \/ \E c \in Conns, tool \in AgentTools : AgentRunWrites(c, tool)
  \/ \E h \in DOMAIN handlers : RealpathSettles(h)
  \/ \E h \in DOMAIN handlers : ReadFileSettles(h)

SpecFetch == FetchInit /\ [][FetchNext]_vars

\* ---------------------------------------------------------------- the dispatch specification
\* The n-th inbound frame, when it is JSON text: its bytes, as no other frame has them.
textBytes(n) == <<n, 200 + n>>

\* The message types the switch of the dispatcher has a case for.
KnownTypes == {"identify", "fetch_file", "message", "audio_start", "audio_end", "ping"}

\* What a client can send that the dispatcher settles without suspending: two
\* identities, audio, a ping, a message of a type the server does not know
\* ({"type":"subscribe"}), the same with a number as content
\* ({"type":"subscribe","content":5}), and the JSON text null.
DispatchFrames(n) ==
  { textFrame("identify", <<>>, StrUserA),
    textFrame("identify", <<>>, StrUserB),
    textFrame("ping", <<>>, <<>>),
    textFrame("subscribe", <<>>, <<>>),
    oddFrame("subscribe", textBytes(n)),
    oddFrame("", textBytes(n)),
    audioFrame(n) }

DispatchInit == InitWith(MaxDispatchFrames + 1) /\ userMessage = <<>>

DispatchNext ==
  \/ \E c \in TurnConns : HandleConnection(c)
  \/ \E c \in TurnConns, frame \in DispatchFrames(inbound + 1) :
       inbound < MaxDispatchFrames /\ OnMessage(c, frame)

SpecDispatch == DispatchInit /\ [][DispatchNext]_vars

\* ---------------------------------------------------------------- the reconnect specification
\* One client: it identifies, asks for something the agent does, closes the
\* connection and comes back. An agent run yields its result and nothing before.
ReconnectFrames ==
  { textFrame("identify", <<>>, StrUserA),
    textFrame("message", StrDeleteTestTxt, <<>>) }

ReconnectInit == InitWith(MaxReconnectSteps) /\ userMessage = <<>>

ReconnectNext ==
  \/ \E c \in TurnConns : HandleConnection(c)
  \/ \E c \in TurnConns : Close(c)
  \/ \E c \in TurnConns, frame \in ReconnectFrames :
       inbound < MaxReconnectFrames /\ OnMessage(c, frame)
  \/ \E h \in DOMAIN handlers, ok \in BOOLEAN : GroqSettles(h, ok)
  \/ \E h \in DOMAIN handlers, ok \in BOOLEAN : FastTtsSettles(h, ok)
  \/ \E h \in DOMAIN handlers :
       \E sid \in {FreshSessionIds[h], handlers[h].resume} : MkdirSettles(h, sid)
  \/ \E h \in DOMAIN handlers, message \in SdkResults : AgentYields(h, message)
  \/ \E h \in DOMAIN handlers : AgentEnds(h)

SpecReconnect == ReconnectInit /\ [][ReconnectNext]_vars

\* ---------------------------------------------------------------- the two-client specification
\* Two clients talk to the server at the same time, each with an utterance of
\* its own, none of which the classifier accepts.
SharedFrames(c) ==
  IF c = "c1" THEN {textFrame("message", StrWhatIs, <<>>)}
              ELSE {textFrame("message", StrHello, <<>>)}

SharedInit == InitWith(MaxSharedSteps) /\ userMessage = <<>>

SharedNext ==
  \/ \E c \in Conns : HandleConnection(c)
  \/ \E c \in Conns : \E frame \in SharedFrames(c) :
       inbound < MaxSharedFrames /\ OnMessage(c, frame)
  \/ \E h \in DOMAIN handlers, ok \in BOOLEAN : GroqSettles(h, ok)
  \/ \E h \in DOMAIN handlers, ok \in BOOLEAN : FastTtsSettles(h, ok)

SpecShared == SharedInit /\ [][SharedNext]_vars

\* ---------------------------------------------------------------- the classifier specification
\* needsAgent as a function of its argument alone: the initial states enumerate
\* the arguments, the one action calls the function and records what it returned.
\* ---------------------------------------------------------------- utterance specification
\* The ways an utterance reaches the server, each with and without words: a
\* typed message, one with the empty string as content, one with no content, and
\* a recording, whose transcription can come back empty.
UtteranceFrames(n) ==
  { textFrame("message", StrWhatIs, <<>>),
    textFrame("message", <<>>, <<>>),
    textFrame("audio_end", <<>>, <<>>),
    audioFrame(n) }

UtteranceInit == InitWith(MaxUtteranceSteps) /\ userMessage = <<>>

UtteranceNext ==
  \/ \E c \in TurnConns : HandleConnection(c)
  \/ \E c \in TurnConns, frame \in UtteranceFrames(inbound + 1) :
       inbound < MaxUtteranceFrames /\ OnMessage(c, frame)
  \/ \E h \in DOMAIN handlers, ok \in BOOLEAN, text \in Transcriptions :
       TranscribeSettles(h, ok, text)
  \/ \E h \in DOMAIN handlers, ok \in BOOLEAN : GroqSettles(h, ok)
  \/ \E h \in DOMAIN handlers, ok \in BOOLEAN : FastTtsSettles(h, ok)

SpecUtterance == UtteranceInit /\ [][UtteranceNext]_vars

\* ---------------------------------------------------------------- identity specification
\* One connection identifies, as user a or as user b, whenever it likes, and asks
\* for something the agent has to do, each time after the turn before has ended.
IdentityFrames ==
  { textFrame("identify", <<>>, StrUserA),
    textFrame("identify", <<>>, StrUserB),
    textFrame("message", StrDeleteTestTxt, <<>>) }

IdentityInit == InitWith(MaxIdentitySteps) /\ userMessage = <<>>

IdentityNext ==
  \/ \E c \in TurnConns : HandleConnection(c)
  \/ \E c \in TurnConns, frame \in IdentityFrames :
       /\ inbound < MaxIdentityFrames
       /\ \A h \in DOMAIN handlers : handlers[h].pc = "done"
       /\ OnMessage(c, frame)
  \/ \E h \in DOMAIN handlers, ok \in BOOLEAN : GroqSettles(h, ok)
  \/ \E h \in DOMAIN handlers, ok \in BOOLEAN : FastTtsSettles(h, ok)
  \/ \E h \in DOMAIN handlers :
       \E sid \in {FreshSessionIds[h], handlers[h].resume} : MkdirSettles(h, sid)
  \/ \E h \in DOMAIN handlers, message \in SdkResults : AgentYields(h, message)
  \/ \E h \in DOMAIN handlers : AgentEnds(h)

SpecIdentity == IdentityInit /\ [][IdentityNext]_vars

\* ---------------------------------------------------------------- lifecycle specification
\* A client asks for something the agent has to do; its socket can close at any
\* time, and the process can be told to stop at any time.
LifecycleFrames == {textFrame("message", StrDeleteTestTxt, <<>>)}

LifecycleInit == InitWith(MaxLifecycleSteps) /\ userMessage = <<>>

LifecycleNext ==
  \/ \E c \in TurnConns : HandleConnection(c)
  \/ \E c \in TurnConns : Disconnect(c)
  \/ \E c \in TurnConns, frame \in LifecycleFrames :
       inbound < MaxLifecycleFrames /\ OnMessage(c, frame)
  \/ \E h \in DOMAIN handlers, ok \in BOOLEAN : GroqSettles(h, ok)
  \/ \E h \in DOMAIN handlers, ok \in BOOLEAN : FastTtsSettles(h, ok)
  \/ \E h \in DOMAIN handlers :
       \E sid \in {FreshSessionIds[h], handlers[h].resume} : MkdirSettles(h, sid)
  \/ \E h \in DOMAIN handlers, message \in SdkResults : AgentYields(h, message)
  \/ \E h \in DOMAIN handlers : AgentEnds(h)
  \/ \E terminates \in BOOLEAN : Sigterm(terminates)
  \/ Exit

SpecLifecycle == LifecycleInit /\ [][LifecycleNext]_vars

\* ---------------------------------------------------------------- the client
\* What the server's state and the process are to a step of the browser.
serverVars == <<userSessions, conversationHistory, handlers, sent, fs, transcribeCalls,
                recording, inbound, userMessage, verdict, server>>

\* The ids crypto.randomUUID() can give.
UUIDs == {"u1", "u2"}

\* What the user does in the page once it shows: send a typed message, start
\* and stop a recording (whose chunks go out as binary frames), open a file.
UserFrames == {"message", "audio_start", "binary", "audio_end", "fetch_file"}

\* App: the saved user id, or a new one (which is then saved).
getOrCreateUserId(saved, newId) == IF saved # None THEN saved ELSE newId

\* useWebSocket.connect: a new socket, which wsRef then points to.
connect(cl) == [cl EXCEPT !.readyState = "CONNECTING", !.socket = @ + 1, !.out = <<>>]

\* useWebSocket.sendMessage / sendBinary: written when the socket is open,
\* logged as an error otherwise.
sendMessage(cl, frame) ==
  IF cl.readyState = "OPEN" THEN [cl EXCEPT !.out = Append(@, frame)] ELSE cl

\* An App whose onConnect sends nothing.
onConnectSilent(cl) == cl

\* App's onConnect: sendMessage({ type: 'identify', userId }).
onConnect(cl) ==
  LET after == sendMessage(cl, [type |-> "identify", userId |-> cl.userId])
  IN  [after EXCEPT !.identified = IF after.out # cl.out THEN @ \cup {cl.userId} ELSE @]

\* ws.onopen of the hook.
onopen(cl) == onConnect([cl EXCEPT !.isConnected = TRUE])

\* A ws.onclose that sets no timer.
oncloseNoRetry(cl) == [cl EXCEPT !.isConnected = FALSE]

\* ws.onclose of the hook: setIsConnected(false) and setTimeout(connect).
onclose(cl) == [cl EXCEPT !.isConnected = FALSE, !.timer = TRUE]

\* The page loads: App renders (the user id is read or made) and the effect of
\* the hook runs connect().
Mount(newId) ==
  LET userId == getOrCreateUserId(client.storage, newId)
  IN
  /\ step
  /\ client.phase = "unloaded"
  /\ client' = connect([client EXCEPT !.phase = "mounted", !.userId = userId, !.storage = userId])
  /\ UNCHANGED serverVars

\* The socket wsRef points to opens: the browser sets readyState and fires 'open'.
SocketOpens ==
  /\ step
  /\ client.readyState = "CONNECTING"
  /\ client' = onopen([client EXCEPT !.readyState = "OPEN"])
  /\ UNCHANGED serverVars

\* The socket closes (the connection drops, the attempt fails, or close() has
\* been called on it): the browser fires 'close'. What the server had still to
\* send on it never arrives.
SocketCloses ==
  /\ step
  /\ client.readyState \in {"CONNECTING", "OPEN", "CLOSING"}
  /\ client' = onclose([client EXCEPT !.readyState = "CLOSED", !.feed = <<>>])
  /\ UNCHANGED serverVars

\* The reconnect timer fires: its callback runs connect().
TimerFires ==
  /\ client.timer
  /\ client' = connect([client EXCEPT !.timer = FALSE])
  /\ UNCHANGED <<serverVars, budget>>

\* A handler of the user interface calls sendMessage or sendBinary.
UserSends(type) ==
  /\ step
  /\ client.phase = "mounted"
  /\ client' = sendMessage(client, [type |-> type, userId |-> None])
  /\ UNCHANGED serverVars

\* The hook unmounts: the cleanup of its effect clears the timer and closes the socket.
Unmount ==
  /\ step
  /\ client.phase = "mounted"
  /\ client' = [client EXCEPT !.phase = "unmounted", !.timer = FALSE,
                              !.readyState = IF @ \in {"CONNECTING", "OPEN"} THEN "CLOSING" ELSE @]
  /\ UNCHANGED serverVars

\* The user reloads the page: the script's state is gone, localStorage stays.
Reload ==
  /\ step
  /\ client.phase # "unloaded"
  /\ client' = [NoPage(client.storage) EXCEPT !.socket = client.socket,
                                              !.identified = client.identified]
  /\ UNCHANGED serverVars

\* ---------------------------------------------------------------- client specification
ClientInit == InitWith(MaxClientSteps) /\ userMessage = <<>>

ClientNext ==
  \/ \E newId \in UUIDs : Mount(newId)
  \/ SocketOpens
  \/ SocketCloses
  \/ TimerFires
  \/ \E type \in UserFrames : UserSends(type)
  \/ Unmount
  \/ Reload

SpecClient == ClientInit /\ [][ClientNext]_vars

\* setTimeout runs its callback once the interval has passed, unless the timer
\* is cleared first.
SpecClientLive == ClientInit /\ [][ClientNext]_vars /\ WF_vars(TimerFires)

\* ---------------------------------------------------------------- the voice button
\* An event of the server as App's onMessage looks at it: its type, whether
\* its content (for tts_audio: its data) is truthy, and whether it carries
\* data.tool_uses.
serverEvent(type, full) == [type |-> type, full |-> full, tools |-> FALSE]

\* What the server sends for one audio_end, in order (handleAudioEnd, then
\* handleUserMessage): the error of a failed transcription; an empty
\* transcription and nothing more; a transcription and the error of a failed
\* turn; a transcription and a fast reply whose synthesis failed, no agent; the
\* same with the synthesised reply; and a turn with an agent run.
VoiceOutcomes ==
  { <<serverEvent("error", TRUE)>>,
    <<serverEvent("transcription", FALSE)>>,
    <<serverEvent("transcription", TRUE), serverEvent("error", TRUE)>>,
    <<serverEvent("transcription", TRUE), serverEvent("groq_response", TRUE)>>,
    <<serverEvent("transcription", TRUE), serverEvent("groq_response", TRUE),
      serverEvent("tts_audio", TRUE)>>,
    <<serverEvent("transcription", TRUE), serverEvent("groq_response", TRUE),
      serverEvent("tts_audio", TRUE), serverEvent("agent_assistant", TRUE),
      serverEvent("agent_result", TRUE)>> }

\* useVoiceState.canInterrupt and canRecord.
canInterrupt(state) == state \in {"speaking", "agent_working"}

canRecord(state) == state = "idle"

\* App's effect that runs after a render: playback is not on and the voice
\* state is 'speaking', so voiceState.reset().
effectPlaybackEnded(cl) ==
  IF ~cl.isPlaying /\ cl.voice = "speaking" THEN [cl EXCEPT !.voice = "idle"] ELSE cl

\* App's onMessage, as far as the voice state goes, and the render after it.
onMessage(cl, e) ==
  effectPlaybackEnded(
    CASE e.type = "groq_response" /\ e.full -> [cl EXCEPT !.voice = "thinking"]
      [] e.type = "agent_assistant" /\ e.tools -> [cl EXCEPT !.voice = "agent_working"]
      [] e.type = "agent_result" /\ e.full -> [cl EXCEPT !.voice = "idle"]
      [] e.type = "transcription" /\ e.full -> [cl EXCEPT !.voice = "thinking"]
      [] e.type = "tts_audio" /\ e.full -> [cl EXCEPT !.voice = "speaking", !.decoding = @ + 1]
      [] OTHER -> cl)

\* useAudioRecording.stopRecording: the MediaRecorder, if it records, is
\* stopped (it then hands over what it has gathered since its last chunk),
\* and setIsRecording(false).
stopRecording(cl) ==
  [cl EXCEPT !.recorder = IF @ = "recording" THEN "inactive" ELSE @,
             !.tail = IF cl.recorder = "recording" THEN @ + 1 ELSE @,
             !.isRecording = FALSE]

\* App's handleVoiceInput.
handleVoiceInput(cl) ==
  IF canInterrupt(cl.voice)
  THEN [cl EXCEPT !.isPlaying = FALSE, !.voice = "idle"]
  ELSE IF cl.isRecording \/ cl.voice = "recording"
  THEN sendMessage([stopRecording(cl) EXCEPT !.voice = "processing"],
                   [type |-> "audio_end", userId |-> None])
  ELSE IF canRecord(cl.voice)
  THEN [sendMessage(cl, [type |-> "audio_start", userId |-> None])
          EXCEPT !.asking = @ + 1, !.voice = "recording"]
  ELSE cl

\* The user taps the voice button. An audio_end that goes out makes the server
\* answer with one of its outcomes.
Tap(outcome) ==
  LET after == handleVoiceInput(client)
      ended == Len(after.out) > Len(client.out) /\ after.out[Len(after.out)].type = "audio_end"
  IN
  /\ step
  /\ client.phase = "mounted"
  /\ client' = IF ended THEN [after EXCEPT !.feed = @ \o outcome] ELSE after
  /\ UNCHANGED serverVars

\* The next event of the server arrives: ws.onmessage calls App's onMessage.
ServerEvent ==
  /\ client.readyState = "OPEN"
  /\ client.feed # <<>>
  /\ client' = onMessage([client EXCEPT !.feed = Tail(@)], Head(client.feed))
  /\ UNCHANGED <<serverVars, budget>>

\* getUserMedia of a startRecording call settles: with a stream, and a
\* MediaRecorder is made and started and setIsRecording(true); or with an
\* error, and setIsRecording(false).
GetUserMediaSettles(granted) ==
  /\ client.asking > 0
  /\ client' = IF granted
               THEN [client EXCEPT !.asking = @ - 1, !.recorder = "recording", !.isRecording = TRUE]
               ELSE [client EXCEPT !.asking = @ - 1, !.isRecording = FALSE]
  /\ UNCHANGED <<serverVars, budget>>

\* The recorder hands over the chunk of a time slice: onDataAvailable calls sendBinary.
DataAvailable ==
  /\ step
  /\ client.recorder = "recording"
  /\ client' = sendMessage(client, [type |-> "binary", userId |-> None])
  /\ UNCHANGED serverVars

\* A stopped recorder hands over what it had gathered when stop() was called,
\* in a task of its own after the handler that called stop(); a blob of size
\* 0 is not passed on.
LastDataAvailable(nonEmpty) ==
  /\ client.tail > 0
  /\ client' = IF nonEmpty
               THEN sendMessage([client EXCEPT !.tail = @ - 1], [type |-> "binary", userId |-> None])
               ELSE [client EXCEPT !.tail = @ - 1]
  /\ UNCHANGED <<serverVars, budget>>

\* A playAudio call gets through decoding: the source starts and
\* setIsPlaying(true); or it fails, and the catch of onMessage resets the
\* voice state.
PlaybackSettles(decoded) ==
  /\ client.decoding > 0
  /\ client' = effectPlaybackEnded(
                 IF decoded
                 THEN [client EXCEPT !.decoding = @ - 1, !.isPlaying = TRUE]
                 ELSE [client EXCEPT !.decoding = @ - 1, !.isPlaying = FALSE, !.voice = "idle"])
  /\ UNCHANGED <<serverVars, budget>>

\* The source has played to its end: onended calls setIsPlaying(false).
PlaybackEnds ==
  /\ client.isPlaying
  /\ client' = effectPlaybackEnded([client EXCEPT !.isPlaying = FALSE])
  /\ UNCHANGED <<serverVars, budget>>

\* ---------------------------------------------------------------- voice specification
VoiceInit == InitWith(MaxVoiceSteps) /\ userMessage = <<>>

VoiceNext ==
  \/ \E newId \in {"u1"} : Mount(newId)
  \/ SocketOpens
  \/ SocketCloses
  \/ TimerFires
  \/ \E outcome \in VoiceOutcomes : Tap(outcome)
  \/ ServerEvent
  \/ \E granted \in BOOLEAN : GetUserMediaSettles(granted)
  \/ DataAvailable
  \/ \E nonEmpty \in BOOLEAN : LastDataAvailable(nonEmpty)
  \/ \E decoded \in BOOLEAN : PlaybackSettles(decoded)
  \/ PlaybackEnds

SpecVoice == VoiceInit /\ [][VoiceNext]_vars

\* What the browser and the server do on their own happens in the end: an
\* event on its way over an open socket arrives, a playAudio call settles, a
\* playing source ends, a stopped recorder hands over its last chunk, and a
\* reconnect timer fires.
SpecVoiceLive ==
  /\ VoiceInit /\ [][VoiceNext]_vars
  /\ WF_vars(ServerEvent) /\ WF_vars(\E decoded \in BOOLEAN : PlaybackSettles(decoded))
  /\ WF_vars(PlaybackEnds) /\ WF_vars(\E nonEmpty \in BOOLEAN : LastDataAvailable(nonEmpty))
  /\ WF_vars(TimerFires)

\* ---------------------------------------------------------------- control specification
\* The frames that start no turn: identify, ping, fetch_file, and a ping whose
\* content is a number ({"type":"ping","content":1}); the file asked for is the
\* one an agent run of the user writes. The client identifies as "b" or as "b/.".
StrAliasUser == <<"b", "/", ".">>

ControlFrames(n) ==
  { textFrame("identify", <<>>, StrUserB),
    textFrame("identify", <<>>, StrAliasUser),
    textFrame("identify", <<>>, <<>>),
    textFrame("ping", <<>>, <<>>),
    oddFrame("ping", textBytes(n)),
    textFrame("fetch_file", StrNotesTxt, <<>>),
    textFrame("fetch_file", <<>>, <<>>) }

ControlInit == InitWith(MaxControlSteps) /\ userMessage = <<>>

ControlNext ==
  \/ \E c \in TurnConns : HandleConnection(c)
  \/ \E c \in TurnConns, frame \in ControlFrames(inbound + 1) :
       inbound < MaxControlFrames /\ OnMessage(c, frame)
  \/ \E c \in TurnConns : AgentRunWrites(c, "Write")
  \/ \E h \in DOMAIN handlers : RealpathSettles(h)
  \/ \E h \in DOMAIN handlers : ReadFileSettles(h)

SpecControl == ControlInit /\ [][ControlNext]_vars

\* ---------------------------------------------------------------- history specification
\* One connection sends text messages that need no agent, each after the turn
\* before it has ended, so that many generateResponse calls run one after the
\* other against the one history of the service.
HistoryFrames == {textFrame("message", StrHello, <<>>)}

HistoryInit == InitWith(MaxHistorySteps) /\ userMessage = <<>>

HistoryNext ==
  \/ \E c \in TurnConns : HandleConnection(c)
  \/ \E c \in TurnConns, frame \in HistoryFrames :
       /\ inbound < MaxHistoryFrames
       /\ \A h \in DOMAIN handlers : handlers[h].pc = "done"
       /\ OnMessage(c, frame)
  \/ \E h \in DOMAIN handlers, ok \in BOOLEAN : GroqSettles(h, ok)
  \/ \E h \in DOMAIN handlers, ok \in BOOLEAN : FastTtsSettles(h, ok)

SpecHistory == HistoryInit /\ [][HistoryNext]_vars

ClassifierInit == InitWith(1) /\ userMessage \in ClassifierInputs

\* const r = needsAgent(userMessage)
Classify ==
  /\ tick
  /\ verdict = <<>>
  /\ verdict' = <<needsAgent(userMessage)>>
  /\ UNCHANGED <<userSessions, conversationHistory, handlers, sent, fs, transcribeCalls,
                 recording, inbound, userMessage>>

ClassifierNext == Classify

SpecClassifier == ClassifierInit /\ [][ClassifierNext]_vars

\* ---------------------------------------------------------------- what a handler has sent
AgentEventTypes ==
  {"agent_assistant", "agent_result", "agent_system_init", "agent_system", "agent_unknown",
   "agent_error"}

\* The handlers that have started a turn (handleUserMessage).
turnHandlers == {h \in DOMAIN handlers : handlers[h].groq # None}

eventsOf(h) == SelectSeq(sent[handlers[h].conn], LAMBDA e : e.h = h)
eventsOfType(h, types) == SelectSeq(sent[handlers[h].conn], LAMBDA e : e.h = h /\ e.type \in types)
agentEventsOf(h) == eventsOfType(h, AgentEventTypes)
last(q) == q[Len(q)]

\* ---------------------------------------------------------------- C1
\* C1: on one connection turns are strictly serialized: of two utterances, the
\* later one does not start its fast-acknowledgment call before the turn of the
\* earlier one has completed.
C1_TurnsSerialized ==
  \A h1 \in turnHandlers, h2 \in turnHandlers :
    (h1 < h2 /\ handlers[h1].conn = handlers[h2].conn) => handlers[h1].pc = "done"

\* ---------------------------------------------------------------- C2
\* C2: the audio handed to a transcription request is the concatenation, in
\* arrival order and without duplicate or omission, of the binary frames the
\* connection received after the most recent audio_start and before the
\* audio_end that made the request.
C2_TranscriptionGetsTheRecording ==
  \A i \in DOMAIN transcribeCalls :
    transcribeCalls[i].bracketed =>
      transcribeCalls[i].buffer = bufferConcat(transcribeCalls[i].window)

\* ---------------------------------------------------------------- C3
\* The bytes of a buffer, as a set.
bytesOf(buffer) == {buffer[i] : i \in DOMAIN buffer}

\* C3: once audio_end has been handled the session's audio buffer is empty, before
\* any later frame of the connection is handled; and no frame handed to one
\* transcription request is handed to a later one.
C3_BufferClearedAtAudioEnd ==
  /\ \A c \in Conns : recording[c].last = "audio_end" => userSessions[c].audioChunks = <<>>
  /\ \A i \in DOMAIN transcribeCalls, j \in DOMAIN transcribeCalls :
       (i < j /\ transcribeCalls[i].conn = transcribeCalls[j].conn) =>
         bytesOf(transcribeCalls[i].buffer) \cap bytesOf(transcribeCalls[j].buffer) = {}

\* ---------------------------------------------------------------- C4
\* C4: in a turn whose fast-acknowledgment call failed there is no synthesis call
\* and no agent invocation, and what the client receives for the turn is an
\* error event and no fast reply.
C4_FastAckFailureAbortsTurn ==
  \A h \in turnHandlers :
    handlers[h].groq = "failed" =>
      /\ handlers[h].synth = 0
      /\ handlers[h].invoked = 0
      /\ handlers[h].classified = 0
      /\ handlers[h].pc = "done"
      /\ Len(eventsOfType(h, {"error"})) = 1
      /\ eventsOfType(h, {"groq_response", "tts_audio"} \cup AgentEventTypes) = <<>>

\* A turn whose fast-acknowledgment call failed, after a turn that went through.
C4_Witness ==
  \E h \in turnHandlers, g \in turnHandlers :
    /\ handlers[h].groq = "failed"
    /\ handlers[g].groq = "ok"
    /\ g < h

\* The utterances of the turn and audio specifications, and for each whether it
\* contains a term of the vocabulary (after lower-casing).
Utterances == {StrWhatIs, StrDeleteTestTxt}
containsTerm ==
  [u \in Utterances |->
     \E k \in 1..Len(agentKeywords), off \in 0..Len(u) :
       /\ off + Len(agentKeywords[k]) <= Len(u)
       /\ \A i \in 1..Len(agentKeywords[k]) : toLowerCaseChar(u[off + i]) = agentKeywords[k][i]]

\* ---------------------------------------------------------------- C5
\* What makes a handler send an error event: a rejected fast-acknowledgment call,
\* a rejected transcription, or executeAgent throwing on the user id.
hasFailed(h) ==
  \/ handlers[h].groq = "failed"
  \/ handlers[h].stt = "failed"
  \/ handlers[h].invoked > 0 /\ ~validUserId(handlers[h].userId)

\* The agent stream of h has been started (query() was called).
streamStarted(h) == handlers[h].sid # None

\* C5: a synthesis failure never aborts or fails a turn. When the synthesis of
\* the fast reply fails, the classifier is still evaluated and the agent is still
\* invoked when the classifier says so; when the synthesis of an agent text fails,
\* the loop goes back to the stream, so that a finished turn has consumed the
\* stream to its terminal event; and a handler sends an error event only for a
\* failure that is no synthesis failure.
C5_SynthesisFailureNeverFailsTurn ==
  \A h \in turnHandlers :
    /\ handlers[h].fastTts = "failed" =>
         /\ handlers[h].classified = 1
         /\ handlers[h].invoked = (IF containsTerm[handlers[h].content] THEN 1 ELSE 0)
    /\ handlers[h].agentTtsFailed > 0 =>
         /\ handlers[h].pc \in {"agent", "agent_tts", "drain", "done"}
         /\ handlers[h].pc = "done" => isTerminal(last(handlers[h].yielded))
    /\ Len(eventsOfType(h, {"error"})) = (IF hasFailed(h) THEN 1 ELSE 0)

\* A finished turn in which both the synthesis of the fast reply and the synthesis
\* of an agent text failed, and whose stream was consumed up to its result.
C5_Witness ==
  \E h \in turnHandlers :
    /\ handlers[h].fastTts = "failed"
    /\ handlers[h].agentTtsFailed > 0
    /\ handlers[h].pc = "done"
    /\ last(handlers[h].yielded).type = "result"
    /\ eventsOfType(h, {"error"}) = <<>>

fetchHandlers == {h \in DOMAIN handlers : handlers[h].kind = "fetch_file"}

\* p lies below the directory root.
isDescendant(p, root) ==
  /\ Len(segmentsOf(p)) > Len(segmentsOf(root))
  /\ SubSeq(segmentsOf(p), 1, Len(segmentsOf(root))) = segmentsOf(root)

\* C7: a fetch_file whose file resolves, links followed, to a path that is not
\* below the workspace directory of the connection's user is answered with the
\* "Invalid file path" error and goes no further: it reads and returns no file.
C7_OutsideWorkspaceIsInvalidPath ==
  \A h \in fetchHandlers :
    ( /\ handlers[h].pc \in {"readFile", "done"}
      /\ handlers[h].realOk
      /\ ~isDescendant(handlers[h].realPath, userWorkspaceOf(handlers[h].fetchUser)) )
    => /\ handlers[h].pc = "done"
       /\ eventsOf(h) = <<fileContent(h, <<>>, "Invalid file path")>>

\* ---------------------------------------------------------------- C8
\* C8: what fetch_file returns on the connection of one user is never the content
\* of a file in the workspace directory of another user.
C8_WorkspacesIsolated ==
  \A h \in fetchHandlers :
    \A i \in DOMAIN eventsOf(h) :
      (eventsOf(h)[i].type = "file_content" /\ eventsOf(h)[i].error = "")
        => eventsOf(h)[i].content \notin (FetchUsers \ {handlers[h].fetchUser})

\* ---------------------------------------------------------------- C9
\* The lower- and the upper-case form of the letters that the classifier inputs
\* have in upper case.
casePairs == { <<"r", "R">>, <<"m", "M">>, <<"c", "C">> }

sameLetter(a, b) == a = b \/ <<a, b>> \in casePairs \/ <<b, a>> \in casePairs

\* Two strings that differ at most in the case of their letters.
sameUpToCase(s1, s2) ==
  Len(s1) = Len(s2) /\ \A i \in 1..Len(s1) : sameLetter(s1[i], s2[i])

\* u has term k at offset off, letter case aside.
termAt(u, k, off) ==
  /\ off + Len(k) <= Len(u)
  /\ \A i \in 1..Len(k) : sameLetter(u[off + i], k[i])

\* For each classifier input: does it contain a term of the vocabulary, case aside.
inputContainsTerm ==
  [u \in ClassifierInputs |->
     \E k \in 1..Len(agentKeywords), off \in 0..Len(u) : termAt(u, agentKeywords[k], off)]

\* C9: the classifier returns true exactly for the messages that contain a term
\* of the vocabulary after lower-casing; its result does not depend on the case
\* of the message; it is false for "hello" and true for "delete test.txt"; and
\* evaluating it changes nothing but the recorded result.
C9_ClassifierIsKeywordContainment ==
  verdict # <<>> =>
    /\ verdict[1] = inputContainsTerm[userMessage]
    /\ \A s \in ClassifierInputs : sameUpToCase(s, userMessage) => needsAgent(s) = verdict[1]
    /\ userMessage = StrHello => verdict[1] = FALSE
    /\ userMessage = StrDeleteTestTxt => verdict[1] = TRUE
    /\ handlers = <<>> /\ conversationHistory = <<[role |-> "system", content |-> SystemPrompt]>>
    /\ fs = InitialFs /\ sent = [c \in Conns |-> <<>>]

\* The classifier has accepted a message written in upper case, and a message
\* that differs from it only in case is among the inputs.
C9_Witness ==
  /\ verdict = <<TRUE>>
  /\ userMessage # toLowerCase(userMessage)
  /\ toLowerCase(userMessage) \in ClassifierInputs

\* ---------------------------------------------------------------- C10
\* C10 as stated: the classifier is evaluated exactly once in every turn.
C10_ClassifiedOnceInEveryTurn ==
  \A h \in turnHandlers : handlers[h].pc = "done" => handlers[h].classified = 1

\* C10, amended: the classifier is evaluated exactly once in every turn whose
\* fast-acknowledgment call succeeded (when the synthesis of the fast reply has
\* settled, after the fast reply was sent and before any agent invocation) and
\* never in a turn whose fast-acknowledgment call failed; the agent is invoked
\* in a turn iff the classifier was evaluated and the utterance contains a term of
\* the vocabulary; a turn whose utterance contains none emits no agent event.
C10_AgentGatedByClassifier ==
  \A h \in turnHandlers :
    LET t == handlers[h]
    IN
    /\ t.classified = (IF t.fastTts \in {"ok", "failed"} THEN 1 ELSE 0)
    /\ t.pc = "done" => t.classified = (IF t.groq = "ok" THEN 1 ELSE 0)
    /\ t.classified = 1 => Len(eventsOfType(h, {"groq_response"})) = 1
    /\ t.invoked = (IF t.classified = 1 /\ containsTerm[t.content] THEN 1 ELSE 0)
    /\ t.pc = "done" => (t.invoked = 1 <=> (t.groq = "ok" /\ containsTerm[t.content]))
    /\ agentEventsOf(h) # <<>> => t.invoked = 1
    /\ ~containsTerm[t.content] => agentEventsOf(h) = <<>>

\* The turn of "what is 2+2" has finished: a fast reply, its audio, nothing else;
\* and a turn of "delete test.txt" has invoked the agent.
C10_Witness ==
  \E h \in turnHandlers, g \in turnHandlers :
    /\ handlers[h].content = StrWhatIs
    /\ handlers[h].pc = "done"
    /\ handlers[h].classified = 1
    /\ handlers[h].invoked = 0
    /\ Len(eventsOf(h)) = 2
    /\ eventsOf(h)[1].type = "groq_response"
    /\ eventsOf(h)[2].type = "tts_audio"
    /\ handlers[g].content = StrDeleteTestTxt
    /\ handlers[g].invoked = 1

\* ---------------------------------------------------------------- C11
\* C11: once a connection's user id has been set by an identify message, nothing
\* changes it for as long as the connection lives.
C11_UserIdImmutable ==
  [][\A c \in Conns :
       ( /\ userSessions[c].connected /\ userSessions'[c].connected
         /\ userSessions[c].userId # tempUserId(c) )
       => userSessions'[c].userId = userSessions[c].userId]_vars

\* ---------------------------------------------------------------- C12
\* What the client of connection c has said so far.
saidOn(c) == {handlers[g].content : g \in {x \in turnHandlers : handlers[x].conn = c}}

\* C12: connections share no state: the conversation history the fast path hands
\* to its gateway for a turn holds, as user messages, only what the client of
\* that turn's connection has said.
C12_NoStateSharedAcrossConnections ==
  \A h \in turnHandlers :
    \A i \in DOMAIN handlers[h].messages :
      handlers[h].messages[i].role = "user" =>
        handlers[h].messages[i].content \in saidOn(handlers[h].conn)

\* ---------------------------------------------------------------- C13
\* The session tokens that completed agent runs for user u have brought back.
tokensOf(u) ==
  { handlers[g].sid :
      g \in { x \in turnHandlers : /\ handlers[x].userId = u
                                   /\ handlers[x].pc = "done"
                                   /\ \E i \in DOMAIN agentEventsOf(x) :
                                        agentEventsOf(x)[i].session_id # None } }

\* C13: resume state goes with the identity: a connection identified as a user
\* for whom an agent run has brought back a session token holds such a token,
\* which is what its next agent invocation passes as resume token.
C13_ResumeStateFollowsIdentity ==
  \A c \in Conns :
    ( /\ userSessions[c].connected
      /\ userSessions[c].userId # tempUserId(c)
      /\ tokensOf(userSessions[c].userId) # {} )
    => userSessions[c].sessionId \in tokensOf(userSessions[c].userId)

\* ---------------------------------------------------------------- C14
\* The session identifier carried by the last agent event among evs that carries
\* one (None when no event does).
lastToken(evs) ==
  LET carrying == SelectSeq(evs, LAMBDA e : e.type \in AgentEventTypes /\ e.session_id # None)
  IN  IF carrying = <<>> THEN None ELSE last(carrying).session_id

\* C14: the session token is the identifier carried by the last agent event
\* forwarded on the connection, from the moment that event has been forwarded:
\* an agent invocation that starts passes exactly that identifier as its resume
\* token, and none when no event has carried one yet.
C14_ResumeIsLastForwardedToken ==
  [][\A h \in DOMAIN handlers :
       (handlers[h].invoked = 0 /\ handlers'[h].invoked = 1)
         => handlers'[h].resume = lastToken(sent[handlers[h].conn])]_vars

\* ---------------------------------------------------------------- C15
\* What a turn shows the client: its fast reply, its audio, its agent events.
turnEventsOf(h) == eventsOfType(h, {"groq_response", "tts_audio"} \cup AgentEventTypes)

isText(e) ==
  e.type = "groq_response" \/ (e.type = "agent_assistant" /\ e.content # <<>>)

C16_AudioFollowsItsText ==
  \A c \in Conns :
    \A i \in DOMAIN sent[c] :
      sent[c][i].type = "tts_audio" =>
        \E j \in 1..(i - 1) :
          /\ isText(sent[c][j])
          /\ sent[c][j].h = sent[c][i].h
          /\ \A k \in (j + 1)..(i - 1) : ~isText(sent[c][k])

\* ---------------------------------------------------------------- C19
audioEndHandlers == {h \in DOMAIN handlers : handlers[h].kind = "audio_end"}

\* C19: an audio_end that finds the audio buffer empty still makes a
\* transcription request, which fails; the client gets one error event for it,
\* no transcription event, and no turn starts.
C19_EmptyAudioIsRecoverableError ==
  \A h \in audioEndHandlers :
    handlers[h].buffer = <<>> =>
      /\ \E i \in DOMAIN transcribeCalls :
           transcribeCalls[i].h = h /\ transcribeCalls[i].buffer = <<>>
      /\ handlers[h].stt = "failed"
      /\ handlers[h].groq = None
      /\ handlers[h].pc = "done"
      /\ eventsOf(h) = <<errorEvent(h, "Failed to transcribe audio")>>

\* After an audio_end on an empty buffer the connection went on: a later
\* recording of the same connection was transcribed.
C19_Witness ==
  \E h \in audioEndHandlers, g \in audioEndHandlers :
    /\ handlers[h].buffer = <<>>
    /\ h < g
    /\ handlers[g].conn = handlers[h].conn
    /\ handlers[g].stt = "ok"

\* ---------------------------------------------------------------- C17
\* The step handles a frame of connection c, and the frame is JSON with a type
\* the switch has no case for.
dropsUnknownType(c) ==
  /\ inbound' = inbound + 1
  /\ recording'[c].at = inbound'
  /\ recording'[c].last \notin KnownTypes \cup {"binary", ""}

\* C17: a JSON frame of unknown type is dropped: handling it sends nothing, starts
\* no handler and no gateway call, and leaves the session as it was.
C17_UnknownTypeIsDropped ==
  [][\A c \in Conns :
       dropsUnknownType(c) =>
         /\ sent' = sent
         /\ handlers' = handlers
         /\ transcribeCalls' = transcribeCalls
         /\ conversationHistory' = conversationHistory
         /\ userSessions' = userSessions]_vars

\* ---------------------------------------------------------------- C18
\* b is the payload of a frame that was not JSON.
isAudioPayload(b) == \E n \in 1..inbound : b = audioFrame(n).bytes

\* C18: only frames that are not JSON-decodable reach the audio buffer, each as
\* one chunk; a JSON-decodable frame never does; and the dispatcher answers no
\* frame with an error event.
C18_OnlyUndecodableFramesAreAudio ==
  \A c \in Conns :
    /\ \A i \in DOMAIN userSessions[c].audioChunks :
         isAudioPayload(userSessions[c].audioChunks[i])
    /\ \A i \in DOMAIN sent[c] : sent[c][i].h = 0 => sent[c][i].type # "error"

\* ---------------------------------------------------------------- C20
\* C20: a fetch_file for a name inside the user's workspace under which there is
\* no file is answered with the "File not found" payload, not with the one for
\* paths outside the workspace; and every fetch_file that has been handled got
\* exactly one file_content response.
C20_MissingFileIsNotFound ==
  \A h \in fetchHandlers :
    handlers[h].pc = "done" =>
      /\ Len(eventsOfType(h, {"file_content"})) = 1
      /\ ( /\ isDescendant(handlers[h].filePath, userWorkspaceOf(handlers[h].fetchUser))
           /\ ~handlers[h].realOk )
         => eventsOf(h) = <<fileContent(h, <<>>, "File not found")>>

\* ---------------------------------------------------------------- C21
\* C21: in every reachable state the history of the fast-acknowledgment service
\* is the system instruction at position 0, never duplicated, followed by at
\* most the 10 most recent entries.
C21_HistoryIsSystemPlusTen ==
  /\ Len(conversationHistory) >= 1
  /\ conversationHistory[1] = [role |-> "system", content |-> SystemPrompt]
  /\ \A i \in 2..Len(conversationHistory) : conversationHistory[i].role # "system"
  /\ Len(conversationHistory) <= 1 + HistoryKeep

\* ---------------------------------------------------------------- C22
\* The result message with which the SDK ends a run that used up maxTurns.
SdkMaxTurnsResult == [type |-> "result", subtype |-> "error_max_turns", text |-> <<>>]

\* The stream of h ended because the turn budget of the run was used up.
budgetExceeded(h) ==
  \E i \in DOMAIN handlers[h].yielded :
    handlers[h].yielded[i] = processMessage(SdkMaxTurnsResult, handlers[h].sid)

\* C22: when the agent stops because its turn budget is used up, the turn is a
\* failed one: the client receives an error event for it and no agent_result,
\* and the turn ends.
C22_BudgetExceededIsFailedTurn ==
  \A h \in turnHandlers :
    budgetExceeded(h) =>
      /\ handlers[h].pc \in {"drain", "done"}
      /\ eventsOfType(h, {"error", "agent_error"}) # <<>>
      /\ eventsOfType(h, {"agent_result"}) = <<>>

\* ---------------------------------------------------------------- C23
\* The step handles a frame of connection c whose type is the given one.
handlesType(c, type) ==
  /\ inbound' = inbound + 1
  /\ recording'[c].at = inbound'
  /\ recording'[c].last = type

\* The step starts no call to a gateway: no transcription request, no entry in
\* the history of the fast path, and no handler but one that reads a file.
startsNoGatewayCall ==
  /\ transcribeCalls' = transcribeCalls
  /\ conversationHistory' = conversationHistory
  /\ \A h \in DOMAIN handlers' :
       IF h \in DOMAIN handlers
       THEN /\ handlers'[h].synth = handlers[h].synth
            /\ handlers'[h].invoked = handlers[h].invoked
       ELSE /\ handlers'[h].kind = "fetch_file"
            /\ handlers'[h].groq = None /\ handlers'[h].stt = None
            /\ handlers'[h].synth = 0 /\ handlers'[h].invoked = 0

\* C23: ping, identify and fetch_file start no gateway call; ping and fetch_file
\* (the steps of its handler included) leave every session and the workspace as
\* they were; identify changes at most the user id of its session; and each
\* ping is answered with exactly one pong.
C23_ControlFramesTouchNothingElse ==
  [][\A c \in Conns :
       /\ handlesType(c, "ping") =>
            /\ startsNoGatewayCall
            /\ userSessions' = userSessions /\ fs' = fs
            /\ sent' = send(c, plainEvent("pong", 0))
       /\ handlesType(c, "fetch_file") =>
            /\ startsNoGatewayCall
            /\ userSessions' = userSessions /\ fs' = fs
       /\ handlesType(c, "identify") =>
            /\ startsNoGatewayCall
            /\ userSessions' = [userSessions EXCEPT ![c].userId = userSessions'[c].userId]
            /\ fs' = fs
       /\ (\E h \in fetchHandlers : handlers'[h].pc # handlers[h].pc) =>
            /\ startsNoGatewayCall
            /\ userSessions' = userSessions /\ fs' = fs]_vars

\* ---------------------------------------------------------------- C24
\* path.dirname of an absolute path.
dirname(p) == toPath(SubSeq(segmentsOf(p), 1, Len(segmentsOf(p)) - 1))

\* The directory fetch_file has used, by user id.
fetchDirs ==
  { <<handlers[h].fetchUser, userWorkspaceOf(handlers[h].fetchUser)>> : h \in fetchHandlers }

\* The working directory of the agent runs so far, by user id: where the files
\* are that the runs have written.
agentDirs ==
  { <<n.data, dirname(n.path)>> : n \in {m \in fs : m.kind = "file" /\ m.path # EnvFilePath} }

\* C24: the workspace directory is derived from the user id and never shared:
\* the directories fetch_file and the agent use for two distinct user ids
\* differ, both use the same directory for the same user id, and the directory
\* is a direct child of the workspace root.
C24_WorkspaceDirPerUser ==
  \A x \in fetchDirs \cup agentDirs :
    /\ dirname(x[2]) = workspaceRoot
    /\ \A y \in fetchDirs \cup agentDirs : (x[1] = y[1]) <=> (x[2] = y[2])

\* ---------------------------------------------------------------- C25
\* C25: while the hook is mounted, a socket that has closed is always followed
\* by a new connection attempt, whether it had been open or was itself an attempt
\* that failed; and from the close to the next open isConnected is false.
C25_ClientReconnects ==
  /\ [](client.phase = "mounted" /\ client.readyState \in {"CLOSED", "CONNECTING"}
          => ~client.isConnected)
  /\ ((client.phase = "mounted" /\ client.readyState = "CLOSED")
        ~> (client.readyState = "CONNECTING" \/ client.phase # "mounted"))

\* The third socket of a mounted hook is open: one connection dropped or failed,
\* so did the attempt after it, and the next attempt went through.
C25_Witness ==
  /\ client.phase = "mounted"
  /\ client.socket = 3
  /\ client.readyState = "OPEN"
  /\ client.isConnected

\* ---------------------------------------------------------------- C26
\* C26: on every connection that opens, the first frame the client sends is
\* identify with the user id kept in localStorage; nothing is sent on a
\* connection before it; and every identify of the browser, on whichever
\* connection and after whichever reload, carries the same user id.
C26_IdentifyFirstWithPersistentId ==
  /\ client.readyState = "OPEN" => client.out # <<>>
  /\ client.out # <<>> => client.out[1] = [type |-> "identify", userId |-> client.storage]
  /\ client.identified \subseteq {client.storage}
  /\ client.storage \in UUIDs \cup {None}
  /\ client.identified # {} => client.storage # None

\* The page is on its second connection or a later one (after a drop or a
\* reload), has identified on it and has sent a frame of the user after that.
C26_Witness ==
  /\ client.socket >= 2
  /\ client.phase = "mounted"
  /\ Len(client.out) >= 2
  /\ client.out[1].type = "identify"
  /\ client.out[2].type # "identify"
  /\ client.userId = client.storage

\* ---------------------------------------------------------------- C27
\* C27: once SIGTERM has arrived the server accepts no new connection, and the
\* process exits only when every turn that was in flight has finished.
C27_ExitAfterInFlightTurns ==
  [][ /\ server.closing =>
           \A c \in Conns : userSessions'[c].connected => userSessions[c].connected
      /\ server'.exited => \A h \in DOMAIN handlers : handlers[h].pc = "done" ]_vars

\* ---------------------------------------------------------------- C28
\* The synthesis calls of turn h that have settled: each either sent its audio
\* or failed.
settledSynth(h) ==
  Len(eventsOfType(h, {"tts_audio"})) + handlers[h].agentTtsFailed
    + (IF handlers[h].fastTts = "failed" THEN 1 ELSE 0)

\* C28: the agent stream is relayed event by event: when the stream yields its
\* next event, every event it yielded before has been forwarded to the client
\* and every synthesis attempt made for one of them has settled.
C28_RelayedWithoutBuffering ==
  [][\A h \in DOMAIN handlers :
       Len(handlers'[h].yielded) > Len(handlers[h].yielded) =>
         /\ Len(agentEventsOf(h)) = Len(handlers[h].yielded)
         /\ handlers[h].synth = settledSynth(h)]_vars

\* The stream has yielded a second event after a first one that was spoken.
C28_Witness ==
  \E h \in turnHandlers :
    /\ Len(handlers[h].yielded) = 2
    /\ wantsSpeech(handlers[h].yielded[1])
    /\ handlers[h].synth = 2
    /\ Len(agentEventsOf(h)) = 2

\* ---------------------------------------------------------------- C29
\* C29: a resume token never crosses identities: the token an agent invocation
\* for user u is given is the session of an earlier invocation of the
\* connection that ran for the same u.
C29_ResumeTokenStaysWithIdentity ==
  \A h \in turnHandlers :
    (handlers[h].invoked > 0 /\ handlers[h].resume # None) =>
      \E g \in turnHandlers :
        /\ g < h
        /\ handlers[g].conn = handlers[h].conn
        /\ handlers[g].userId = handlers[h].userId
        /\ handlers[g].sid = handlers[h].resume

\* ---------------------------------------------------------------- C30
\* The gateway calls handler t has started: transcription, fast acknowledgment,
\* synthesis calls, and the agent stream once query() has been called.
gatewayCalls(t) ==
  t.synth + (IF t.stt # None THEN 1 ELSE 0) + (IF t.groq # None THEN 1 ELSE 0)
          + (IF t.sid # None THEN 1 ELSE 0)

\* C30: once a connection has closed, no gateway call is started on its behalf
\* any more, not even by a turn that was in flight when it closed.
C30_NoGatewayCallAfterClose ==
  [][\A h \in DOMAIN handlers :
       (~userSessions[handlers[h].conn].connected /\ ~userSessions'[handlers[h].conn].connected)
         => gatewayCalls(handlers'[h]) = gatewayCalls(handlers[h])]_vars

\* ---------------------------------------------------------------- C31
\* C31: a fast-acknowledgment call that fails leaves no trace in the history:
\* in the history a call hands to the gateway, user and assistant entries
\* alternate after the system instruction, the last one being the utterance of
\* the call; and so they do in the history the service keeps.
C31_FailedCallLeavesHistoryUnchanged ==
  /\ \A h \in turnHandlers :
       LET m == handlers[h].messages
       IN  /\ m[Len(m)].role = "user"
           /\ \A i \in 2..(Len(m) - 1) : m[i].role # m[i + 1].role
  /\ \A i \in 2..(Len(conversationHistory) - 1) :
       conversationHistory[i].role # conversationHistory[i + 1].role

\* ---------------------------------------------------------------- C32
\* C32: a turn is started only for an utterance that is not empty. A handler
\* that has made a fast-acknowledgment call, a synthesis call or an agent
\* invocation has a non-empty utterance; a message frame whose content is
\* missing or empty leaves no handler; a transcription that comes back empty is
\* sent to the client and that is all; and a transcription that is not empty is
\* sent to the client before anything else of its turn.
C32_TurnOnlyForNonEmptyUtterance ==
  \A h \in DOMAIN handlers :
    LET t == handlers[h]
        evs == eventsOf(h)
    IN
    /\ (t.groq # None \/ t.synth > 0 \/ t.invoked > 0) => t.content # <<>>
    /\ t.kind = "message" => t.groq # None
    /\ (t.kind = "audio_end" /\ t.stt = "ok") =>
         /\ evs # <<>>
         /\ evs[1].type = "transcription"
         /\ IF evs[1].content = <<>>
            THEN t.groq = None /\ t.synth = 0 /\ t.invoked = 0 /\ t.pc = "done" /\ Len(evs) = 1
            ELSE t.groq # None /\ t.content = evs[1].content
    /\ \A i \in DOMAIN evs :
         evs[i].type \in {"groq_response", "tts_audio"} => t.content # <<>>

\* A message with nothing in it has been handled and has left no handler; a
\* recording came back empty and one came back with words, whose fast reply
\* followed its transcription.
C32_Witness ==
  /\ \E c \in Conns : recording[c].last = "message" /\ recording[c].at > Len(handlers)
  /\ \E h \in audioEndHandlers, g \in audioEndHandlers :
       /\ handlers[h].stt = "ok" /\ handlers[h].groq = None
       /\ Len(eventsOf(g)) >= 2
       /\ eventsOf(g)[1].type = "transcription"
       /\ eventsOf(g)[2].type = "groq_response"

\* ---------------------------------------------------------------- C33
\* The user id has "..", "/" or "\" in it.
isTraversing(userId) ==
  \/ \E i \in DOMAIN userId : userId[i] \in {"/", "\\"}
  \/ \E i \in 1..(Len(userId) - 1) : userId[i] = "." /\ userId[i + 1] = "."

liveSockets(cl) == IF cl.readyState \in {"CONNECTING", "OPEN"} THEN 1 ELSE 0

\* C36: once the cleanup of the hook's effect has run, no reconnect timer is
\* pending and no socket of the hook is connecting or open; and at every
\* moment at most one socket of the hook is open or connecting.
C36_HookStopsOnTeardown ==
  /\ client.phase = "unmounted" => ~client.timer /\ liveSockets(client) = 0
  /\ liveSockets(client) <= 1

\* ---------------------------------------------------------------- C34
\* The last of the control messages audio_start and audio_end among the frames
\* sent on the socket, None if there is none.
lastControl(out) ==
  LET ctl == SelectSeq(out, LAMBDA f : f.type \in {"audio_start", "audio_end"})
  IN  IF ctl = <<>> THEN None ELSE ctl[Len(ctl)].type

\* C34: the recording protocol is well-bracketed. Whenever a frame goes out on
\* the socket: an audio_start goes out only when the voice state is idle and
\* the last control message before it was not an audio_start; an audio_end and
\* a binary chunk go out only when the last control message before them was an
\* audio_start.
C34_RecordingIsWellBracketed ==
  [][(Len(client'.out) = Len(client.out) + 1 /\ SubSeq(client'.out, 1, Len(client.out)) = client.out)
       => LET f == client'.out[Len(client'.out)]
          IN  /\ f.type = "audio_start"
                   => client.voice = "idle" /\ lastControl(client.out) # "audio_start"
              /\ f.type \in {"audio_end", "binary"}
                   => lastControl(client.out) = "audio_start"]_vars

\* ---------------------------------------------------------------- C35
\* C35: the voice state never gets stuck: again and again it is idle or such
\* that a tap changes it.
C35_VoiceStateNeverStuck ==
  []<>(client.voice = "idle" \/ handleVoiceInput(client).voice # client.voice)

====
